---- MODULE Spec2Model ----
(***************************************************************************)
(* Scan orchestration and bounded result aggregation of the TruffleHog MCP *)
(* server: ResultCollector, ConvertResult and the Scanner entry points.    *)
(***************************************************************************)
EXTENDS Integers, Sequences, FiniteSets, TLC

(***************************************************************************)
(* Bounds of the model.                                                    *)
(***************************************************************************)
NumCalls   == 2   \* scan calls in flight on one Scanner
NumWorkers == 2   \* goroutines offering findings to one collector
MaxN       == 2   \* largest maxResults a collector is built with
MaxOffer   == 3   \* Print calls made on one collector
MaxRet     == 2   \* Results() calls whose returned slice the caller keeps
MaxMut     == 1   \* mutations a caller makes to returned slices
ScanTimeout == 1  \* Config.ScanTimeout, in ticks of the model's clock
MaxLookups == 2   \* lookups made on one detector registry
ChunkSize  == 2   \* bytes the chunker puts in one chunk

Calls   == 1..NumCalls
Workers == 1..NumWorkers

(***************************************************************************)
(* Optional values: <<>> is nil, <<v>> is a present value v.               *)
(***************************************************************************)
None    == <<>>
Some(v) == <<v>>

Min(a, b) == IF a <= b THEN a ELSE b

(***************************************************************************)
(* Go strings and byte slices are sequences of byte values.                *)
(***************************************************************************)
EmptyString == <<>>

\* string(b) for a byte slice b: a string holding the same bytes; a nil
\* slice converts to the empty string.
BytesToString(b) == [i \in 1..Len(b) |-> b[i]]

(***************************************************************************)
(* Heap of Go maps.  A map value is a reference: ScanResult.ExtraData and  *)
(* ScanResult.SourceMetadata hold an address, 0 being the nil map.         *)
(***************************************************************************)
NilAddr == 0

\* m[k] = v on a Go map
MapSet(m, k, v) == [x \in (DOMAIN m) \cup {k} |-> IF x = k THEN v ELSE m[x]]

EmptyMap == [x \in {} |-> ""]

(***************************************************************************)
(* detectorspb enum String() methods, as the tests observe them.           *)
(***************************************************************************)
DetectorTypes == {"DetectorType_AWS", "DetectorType_Stripe", "DetectorType_Azure"}

DetectorTypeString(t) ==
    CASE t = "DetectorType_AWS"    -> "AWS"
      [] t = "DetectorType_Stripe" -> "Stripe"
      [] t = "DetectorType_Azure"  -> "Azure"

DecoderTypeString(t) ==
    CASE t = "DecoderType_PLAIN"   -> "PLAIN"
      [] t = "DecoderType_BASE64"  -> "BASE64"

(***************************************************************************)
(* source_metadatapb.MetaData: Data is a oneof; tag names the wrapper type *)
(* ("Unset" when Data is nil, "Docker" one of the kinds the conversion has  *)
(* no case for), hasBody is FALSE when the wrapper's payload pointer is    *)
(* nil.                                                                    *)
(***************************************************************************)
MetaTags == {"Filesystem", "Git", "Github", "Gitlab", "Stdin", "Docker", "Unset"}

MkMeta(tag, hasBody, file, line, repo, commit) ==
    [tag |-> tag, hasBody |-> hasBody, File |-> file, Line |-> line,
     Repository |-> repo, Commit |-> commit]

\* convertSourceMetadata: nil for a nil object, otherwise a fresh map.
convertSourceMetadata(meta) ==
    IF meta = None THEN None
    ELSE LET d == meta[1]
             withLine(m) == IF d.Line > 0 THEN MapSet(m, "line", d.Line) ELSE m
         IN Some(
            CASE d.tag = "Filesystem" ->
                   IF d.hasBody
                   THEN withLine(MapSet(MapSet(EmptyMap, "type", "filesystem"),
                                        "file", d.File))
                   ELSE EmptyMap
              [] d.tag = "Git" ->
                   IF d.hasBody
                   THEN withLine(MapSet(MapSet(MapSet(MapSet(EmptyMap,
                            "type", "git"), "repository", d.Repository),
                            "commit", d.Commit), "file", d.File))
                   ELSE EmptyMap
              [] d.tag = "Github" ->
                   IF d.hasBody
                   THEN LET m == withLine(MapSet(MapSet(MapSet(EmptyMap,
                                     "type", "github"), "repository", d.Repository),
                                     "file", d.File))
                        IN IF d.Commit # "" THEN MapSet(m, "commit", d.Commit) ELSE m
                   ELSE EmptyMap
              [] d.tag = "Gitlab" ->
                   IF d.hasBody
                   THEN withLine(MapSet(MapSet(MapSet(EmptyMap,
                            "type", "gitlab"), "repository", d.Repository),
                            "file", d.File))
                   ELSE EmptyMap
              [] d.tag = "Stdin" -> MapSet(EmptyMap, "type", "stdin")
              [] OTHER -> MapSet(EmptyMap, "type", "unknown"))

(***************************************************************************)
(* detectors.ResultWithMetadata, the fields ConvertResult reads.           *)
(***************************************************************************)
MkRaw(dt, name, verified, raw, redacted, extra, dec, verr, meta) ==
    [DetectorType |-> dt, DetectorName |-> name, Verified |-> verified,
     Raw |-> raw, Redacted |-> redacted, ExtraData |-> extra,
     DecoderType |-> dec, verificationError |-> verr, SourceMetadata |-> meta]

\* ConvertResult with the Raw rule of lines 186-188 dropped (always copies).
ConvertResultLeakRaw(r) ==
    [DetectorType      |-> DetectorTypeString(r.DetectorType),
     DetectorName      |-> r.DetectorName,
     Verified          |-> r.Verified,
     VerificationError |-> IF r.verificationError # None
                           THEN r.verificationError[1] ELSE "",
     Raw               |-> BytesToString(r.Raw),
     Redacted          |-> r.Redacted,
     ExtraData         |-> r.ExtraData,
     SourceMetadata    |-> IF r.SourceMetadata # None
                           THEN convertSourceMetadata(r.SourceMetadata) ELSE None,
     DecoderType       |-> DecoderTypeString(r.DecoderType)]

\* ConvertResult giving a finding without provenance the "unknown" map.
ConvertResultUnknownWhenAbsent(r) ==
    [DetectorType      |-> DetectorTypeString(r.DetectorType),
     DetectorName      |-> r.DetectorName,
     Verified          |-> r.Verified,
     VerificationError |-> IF r.verificationError # None
                           THEN r.verificationError[1] ELSE "",
     Raw               |-> IF r.Verified THEN BytesToString(r.Raw) ELSE EmptyString,
     Redacted          |-> r.Redacted,
     ExtraData         |-> r.ExtraData,
     SourceMetadata    |-> convertSourceMetadata(
                               IF r.SourceMetadata # None THEN r.SourceMetadata
                               ELSE Some(MkMeta("Unset", FALSE, "", 0, "", ""))),
     DecoderType       |-> DecoderTypeString(r.DecoderType)]

\* ConvertResult: the ScanResult built from a raw finding.  ExtraData is the
\* finding's own map (same address); SourceMetadata is the freshly made map,
\* given by value until Print stores it.
ConvertResult(r) ==
    [DetectorType      |-> DetectorTypeString(r.DetectorType),
     DetectorName      |-> r.DetectorName,
     Verified          |-> r.Verified,
     VerificationError |-> IF r.verificationError # None
                           THEN r.verificationError[1] ELSE "",
     Raw               |-> IF r.Verified THEN BytesToString(r.Raw) ELSE EmptyString,
     Redacted          |-> r.Redacted,
     ExtraData         |-> r.ExtraData,
     SourceMetadata    |-> IF r.SourceMetadata # None
                           THEN convertSourceMetadata(r.SourceMetadata) ELSE None,
     DecoderType       |-> DecoderTypeString(r.DecoderType)]

(***************************************************************************)
(* The findings the pipeline can emit.  AwsKey is verified and carries a   *)
(* detector-owned ExtraData map (address 1); StripeKey is unverified with  *)
(* a verification error; AzureKey is verified and came from stdin.         *)
(***************************************************************************)
AwsKey ==
    MkRaw("DetectorType_AWS", "", TRUE, <<65, 75>>, "AK**", 1, "DecoderType_PLAIN",
          None, Some(MkMeta("Filesystem", TRUE, "test.go", 42, "", "")))

StripeKey ==
    MkRaw("DetectorType_Stripe", "", FALSE, <<115, 107>>, "sk**", NilAddr,
          "DecoderType_BASE64", Some("verification failed"), None)

AzureKey ==
    MkRaw("DetectorType_Azure", "", TRUE, <<97>>, "a*", NilAddr, "DecoderType_PLAIN",
          None, Some(MkMeta("Stdin", FALSE, "", 0, "", "")))

RawPool == {AwsKey, StripeKey, AzureKey}

\* The maps the detection engine owns before any Print.
InitHeap == [a \in {1} |-> [account |-> "123456789"]]

(***************************************************************************)
(* DetectorRegistry.  Identifiers are strings of characters; the registry  *)
(* keys its descriptors by the lower-cased identifier.                     *)
(***************************************************************************)
\* unicode.ToLower on the letters the identifiers below are made of
ToLowerChar(ch) ==
    CASE ch = "A" -> "a"
      [] ch = "W" -> "w"
      [] ch = "S" -> "s"
      [] ch = "G" -> "g"
      [] ch = "C" -> "c"
      [] ch = "P" -> "p"
      [] OTHER    -> ch

\* A lookup key left in the case it was given.
ToLowerIdentity(s) == s

\* strings.ToLower(s)
ToLower(s) == [i \in 1..Len(s) |-> ToLowerChar(s[i])]

\* defaults.DefaultDetectors(): Type().String(), Description(), Keywords()
\* and, for a Versioner, Version() of each detector.
\* Keywords() hands out a slice; array is the address of its backing array.
DefaultDetectors ==
    << [Type |-> <<"A", "W", "S">>, Description |-> "AWS access keys",
        Keywords |-> <<"AKIA">>, array |-> 1, Versioner |-> TRUE, Version |-> 2],
       [Type |-> <<"G", "C", "P">>, Description |-> "GCP service account keys",
        Keywords |-> <<"provider_x509">>, array |-> 2, Versioner |-> FALSE,
        Version |-> 0] >>

\* The backing arrays of the keyword slices, by address.
KeywordArrays ==
    [a \in {DefaultDetectors[k].array : k \in 1..Len(DefaultDetectors)} |->
        (CHOOSE d \in {DefaultDetectors[k] : k \in 1..Len(DefaultDetectors)} :
            d.array = a).Keywords]

\* The DetectorInfo loadDefaults builds for detector d
\* (Keywords is a slice header: the backing array and the length).
MkDetectorInfo(d) ==
    [Type |-> d.Type, Name |-> d.Type, Description |-> d.Description,
     Keywords |-> [array |-> d.array, len |-> Len(d.Keywords)],
     Version |-> IF d.Versioner THEN d.Version ELSE 0]

\* loadDefaults: r.detectors[strings.ToLower(info.Type)] = info for each
\* of the first k default detectors, in order
RECURSIVE loadDefaults(_)
loadDefaults(k) ==
    IF k = 0 THEN [x \in {} |-> MkDetectorInfo(DefaultDetectors[1])]
    ELSE LET m    == loadDefaults(k - 1)
             info == MkDetectorInfo(DefaultDetectors[k])
             key  == ToLower(info.Type)
         IN [x \in (DOMAIN m) \cup {key} |-> IF x = key THEN info ELSE m[x]]

\* NewDetectorRegistry(): the populated registry.  arrays are the backing
\* arrays its descriptors' keyword slices point into; calls is the record
\* of the lookups made on it and lists the record of the List calls, oldest
\* first, each with what the caller now holds.
NewDetectorRegistry ==
    [detectors |-> loadDefaults(Len(DefaultDetectors)), arrays |-> KeywordArrays,
     calls |-> <<>>, lists |-> <<>>]

(***************************************************************************)
(* BytesSource: the content source over an in-memory buffer, and the two   *)
(* ways the pipeline runs it.                                              *)
(*   made, name, data, verify  the source NewBytesSource built             *)
(*   failAt   the number of chunks after which reading this buffer fails   *)
(*            in the chunker, None when it does not fail                   *)
(*   units    the units Enumerate reported                                 *)
(*   ctxDone  the context handed to the source was cancelled               *)
(*   run      per invocation style, the call of Chunks: pc (none, running, *)
(*            sending, returned), the chunks sent so far, its error, and   *)
(*            the chunks its consumer was handed                           *)
(*   cpc      ChunkUnit's own body: idle, ranging (in the range over the   *)
(*            channel) or returned;  unitErr  what ChunkUnit returned      *)
(***************************************************************************)
Styles == {"direct", "unit"}

IdleRun == [pc |-> "none", sent |-> 0, err |-> None, got |-> <<>>]

NoSource ==
    [made |-> FALSE, name |-> "", data |-> <<>>, verify |-> FALSE, failAt |-> None,
     units |-> <<>>, ctxDone |-> FALSE, run |-> [r \in Styles |-> IdleRun],
     cpc |-> "idle", unitErr |-> None]

(***************************************************************************)
(* One call of a Scanner entry point, before it starts.                    *)
(*   pc        where the call is: idle, setup, conn, init, scan, finish,   *)
(*             readResults, readCount, readTruncated, returned, panicked   *)
(*   kind/arg/opts  the entry point and its arguments                      *)
(*   stat      what os.Stat answered for the path it was asked about       *)
(*   statted   the path handed to os.Stat, None when Stat was not called   *)
(*   made      a collector, source manager and engine config were built    *)
(*   engine    none, started (eng.Start) or finished (eng.Finish returned) *)
(*   fed       the content source was handed to EnumerateAndScan           *)
(*   verifyEngine, verifySource  the Verify flag given to each             *)
(*   failedAt  the pipeline step that failed, "" when none did             *)
(*   resp, err the two return values, None for nil                         *)
(*   rResults, rCount  what Results() and Count() answered                 *)
(* and, when the call is made by a tool handler,                           *)
(*   tool      the tool whose handler runs, "" for a direct call           *)
(*   reqVerify the request's verify argument, None when it has none        *)
(*   harg, hopts  the argument and options the handler passes on           *)
(*   thCtx     the context the handler hands to the Scanner                *)
(*   cancelled the request's own context was cancelled during the scan     *)
(*   elapsed   clock ticks that passed while the scan was running          *)
(*   toolResult  the CallToolResult the handler returned, None before      *)
(*   req       the arguments of a verify_secret request, None otherwise    *)
(* and  src    the BytesSource a content scan builds                       *)
(***************************************************************************)
IdleCall ==
    [pc |-> "idle", kind |-> "", arg |-> <<>>, opts |-> None, stat |-> "none",
     statted |-> None, made |-> FALSE, engine |-> "none", fed |-> FALSE,
     verifyEngine |-> None, verifySource |-> None, failedAt |-> "",
     resp |-> None, err |-> None, rResults |-> <<>>, rCount |-> 0,
     tool |-> "", reqVerify |-> None, harg |-> <<>>, hopts |-> None,
     thCtx |-> "", cancelled |-> FALSE, elapsed |-> 0, toolResult |-> None,
     req |-> None, src |-> NoSource]

VARIABLES
    maxResults,   \* [Calls -> Nat]           ResultCollector.maxResults
    results,      \* [Calls -> Seq(ScanResult)] ResultCollector.results
    truncated,    \* [Calls -> BOOLEAN]       ResultCollector.truncated
    mu,           \* [Calls -> 0 | worker]    ResultCollector.mu, 0 when unlocked
    heap,         \* address -> Go map
    wpc,          \* [Calls -> [Workers -> position inside Print]]
    warg,         \* [Calls -> [Workers -> the finding passed to Print]]
    offered,      \* [Calls -> Seq(raw finding)], in the order Print took the mutex
    ret,          \* the slices Results() returned to the caller, oldest first
    nmut,         \* mutations the caller made so far
    config,       \* Scanner.config: [MaxResults, Verify, Timeout]
    call,         \* [Calls -> the state of one Scanner entry-point call]
    registry      \* DetectorRegistry.detectors, and the lookups callers made

collVars   == <<maxResults, results, truncated, mu>>
workVars   == <<wpc, warg, offered>>
callerVars == <<ret, nmut>>
scanVars   == <<config, call>>
vars       == <<maxResults, results, truncated, mu, heap, wpc, warg, offered, ret, nmut,
                config, call, registry>>

Max(S) == CHOOSE x \in S : \A y \in S : y <= x

\* The address make(map) hands out next.
NextAddr(h) == Max(DOMAIN h) + 1

\* A stored ScanResult with its SourceMetadata map read through the heap.
Deref(sr, h) ==
    [sr EXCEPT !.SourceMetadata = IF @ = NilAddr THEN None ELSE Some(h[@])]

DerefAll(s, h) == [i \in 1..Len(s) |-> Deref(s[i], h)]

(***************************************************************************)
(* NewResultCollector(maxResults)                                          *)
(***************************************************************************)
\* A collector built without its bound.
NewResultCollectorUnbounded(c, n) ==
    /\ maxResults' = [maxResults EXCEPT ![c] = 0]
    /\ results'    = [results EXCEPT ![c] = <<>>]
    /\ truncated'  = [truncated EXCEPT ![c] = FALSE]
    /\ mu'         = [mu EXCEPT ![c] = 0]

\* NewResultCollector: an empty, unlocked collector with the given bound
NewResultCollector(c, n) ==
    /\ maxResults' = [maxResults EXCEPT ![c] = n]
    /\ results'    = [results EXCEPT ![c] = <<>>]
    /\ truncated'  = [truncated EXCEPT ![c] = FALSE]
    /\ mu'         = [mu EXCEPT ![c] = 0]

(***************************************************************************)
(* ResultCollector.Print, one action per step a goroutine takes.           *)
(***************************************************************************)
\* Print entered without taking the mutex.
PrintLockNoMutex(c, w) ==
    /\ wpc[c][w] = "lock"
    /\ mu' = [mu EXCEPT ![c] = w]
    /\ wpc' = [wpc EXCEPT ![c][w] = "check"]
    /\ offered' = [offered EXCEPT ![c] = Append(@, warg[c][w])]
    /\ UNCHANGED <<maxResults, results, truncated, heap, warg, ret, nmut, config, call, registry>>

\* c.mu.Lock()
PrintLock(c, w) ==
    /\ wpc[c][w] = "lock"
    /\ mu[c] = 0
    /\ mu' = [mu EXCEPT ![c] = w]
    /\ wpc' = [wpc EXCEPT ![c][w] = "check"]
    /\ offered' = [offered EXCEPT ![c] = Append(@, warg[c][w])]
    /\ UNCHANGED <<maxResults, results, truncated, heap, warg, ret, nmut, config, call, registry>>

\* The bound test written with > in place of >=.
PrintCheckOffByOne(c, w) ==
    /\ wpc[c][w] = "check"
    /\ IF maxResults[c] > 0 /\ Len(results[c]) > maxResults[c]
       THEN /\ truncated' = [truncated EXCEPT ![c] = TRUE]
            /\ wpc' = [wpc EXCEPT ![c][w] = "unlock"]
       ELSE /\ wpc' = [wpc EXCEPT ![c][w] = "append"]
            /\ UNCHANGED truncated
    /\ UNCHANGED <<maxResults, results, mu, heap, warg,
                   offered, ret, nmut, config, call, registry>>

\* if c.maxResults > 0 && len(c.results) >= c.maxResults { c.truncated = true; return nil }
PrintCheck(c, w) ==
    /\ wpc[c][w] = "check"
    /\ IF maxResults[c] > 0 /\ Len(results[c]) >= maxResults[c]
       THEN /\ truncated' = [truncated EXCEPT ![c] = TRUE]
            /\ wpc' = [wpc EXCEPT ![c][w] = "unlock"]
       ELSE /\ wpc' = [wpc EXCEPT ![c][w] = "append"]
            /\ UNCHANGED truncated
    /\ UNCHANGED <<maxResults, results, mu, heap, warg,
                   offered, ret, nmut, config, call, registry>>

\* An append that raises the truncated flag as soon as the collector is full.
PrintAppendAndFlag(c, w) ==
    /\ wpc[c][w] = "append"
    /\ LET result == ConvertResult(warg[c][w])
           a      == NextAddr(heap)
       IN IF result.SourceMetadata = None
          THEN /\ results' = [results EXCEPT ![c] =
                     Append(@, [result EXCEPT !.SourceMetadata = NilAddr])]
               /\ UNCHANGED heap
          ELSE /\ results' = [results EXCEPT ![c] =
                     Append(@, [result EXCEPT !.SourceMetadata = a])]
               /\ heap' = [x \in (DOMAIN heap) \cup {a} |->
                             IF x = a THEN result.SourceMetadata[1] ELSE heap[x]]
    /\ truncated' = [truncated EXCEPT ![c] = @ \/ Len(results[c]) + 1 = maxResults[c]]
    /\ wpc' = [wpc EXCEPT ![c][w] = "unlock"]
    /\ UNCHANGED <<maxResults, mu, warg, offered, ret, nmut, config, call, registry>>

\* result := ConvertResult(r); c.results = append(c.results, result)
PrintAppend(c, w) ==
    /\ wpc[c][w] = "append"
    /\ LET result == ConvertResult(warg[c][w])
           a      == NextAddr(heap)
       IN IF result.SourceMetadata = None
          THEN /\ results' = [results EXCEPT ![c] =
                     Append(@, [result EXCEPT !.SourceMetadata = NilAddr])]
               /\ UNCHANGED heap
          ELSE /\ results' = [results EXCEPT ![c] =
                     Append(@, [result EXCEPT !.SourceMetadata = a])]
               /\ heap' = [x \in (DOMAIN heap) \cup {a} |->
                             IF x = a THEN result.SourceMetadata[1] ELSE heap[x]]
    /\ wpc' = [wpc EXCEPT ![c][w] = "unlock"]
    /\ UNCHANGED <<maxResults, truncated, mu, warg, offered, ret, nmut, config, call, registry>>

\* defer c.mu.Unlock(); return nil
PrintUnlock(c, w) ==
    /\ wpc[c][w] = "unlock"
    /\ mu' = [mu EXCEPT ![c] = IF @ = w THEN 0 ELSE @]
    /\ wpc' = [wpc EXCEPT ![c][w] = "idle"]
    /\ UNCHANGED <<maxResults, results, truncated, heap, warg,
                   offered, ret, nmut, config, call, registry>>

(***************************************************************************)
(* The collector's readers: each holds the mutex for its whole body.       *)
(***************************************************************************)
\* Results() reading one collector shared by every call.
ResultsOfSharedCollector(c) == [i \in 1..Len(results[1]) |-> results[1][i]]

\* Results(): resultsCopy := make(...); copy(resultsCopy, c.results)
Results(c) == [i \in 1..Len(results[c]) |-> results[c][i]]

\* Count()
Count(c) == Len(results[c])

\* IsTruncated()
IsTruncated(c) == truncated[c]

\* Whether a reader can take c.mu now.
CanLock(c) == mu[c] = 0

(***************************************************************************)
(* Goroutines offering findings to collector 1, as in                      *)
(* TestResultCollector_ThreadSafety.                                       *)
(***************************************************************************)
Pending(c) == Cardinality({w \in Workers : wpc[c][w] = "lock"})

AllIdle(c) == \A w \in Workers : wpc[c][w] = "idle"

WorkerOffer(c, w, r) ==
    /\ wpc[c][w] = "idle"
    /\ Len(offered[c]) + Pending(c) < MaxOffer
    /\ wpc' = [wpc EXCEPT ![c][w] = "lock"]
    /\ warg' = [warg EXCEPT ![c][w] = r]
    /\ UNCHANGED <<maxResults, results, truncated, mu, heap,
                   offered, ret, nmut, config, call, registry>>

InitCollector ==
    /\ \E n \in 0..MaxN : maxResults = [c \in Calls |-> n]
    /\ results = [c \in Calls |-> <<>>]
    /\ truncated = [c \in Calls |-> FALSE]
    /\ mu = [c \in Calls |-> 0]
    /\ heap = InitHeap
    /\ wpc = [c \in Calls |-> [w \in Workers |-> "idle"]]
    /\ warg = [c \in Calls |-> [w \in Workers |-> AwsKey]]
    /\ offered = [c \in Calls |-> <<>>]
    /\ ret = <<>>
    /\ nmut = 0
    /\ config = [MaxResults |-> maxResults[1], Verify |-> TRUE, Timeout |-> ScanTimeout]
    /\ call = [c \in Calls |-> IdleCall]
    /\ registry = NewDetectorRegistry

PrintStep(c, w) ==
    \/ PrintLock(c, w)
    \/ PrintCheck(c, w)
    \/ PrintAppend(c, w)
    \/ PrintUnlock(c, w)

NextCollector ==
    \E w \in Workers :
        \/ \E r \in RawPool : WorkerOffer(1, w, r)
        \/ PrintStep(1, w)

SpecCollector == InitCollector /\ [][NextCollector]_vars

(***************************************************************************)
(* Claims about the collector, checked under SpecCollector.                *)
(***************************************************************************)
\* The kept items are the conversions of the first k findings offered.
KeptIsPrefix(c) ==
    /\ Len(results[c]) <= Len(offered[c])
    /\ DerefAll(results[c], heap) =
           [i \in 1..Len(results[c]) |-> ConvertResult(offered[c][i])]

\* C1: once M Print calls on a collector built with maxResults = N have all
\* returned: N = 0 keeps all M and is not truncated; N > 0 and M <= N keeps
\* all M and is not truncated; M > N keeps exactly the first N offered and
\* is truncated.
C1_KeepUpToBound ==
    AllIdle(1) =>
        LET N == maxResults[1]
            M == Len(offered[1])
        IN /\ KeptIsPrefix(1)
           /\ (N = 0) => (Count(1) = M /\ ~IsTruncated(1))
           /\ (N > 0 /\ M <= N) => (Count(1) = M /\ ~IsTruncated(1))
           /\ (N > 0 /\ M > N) => (Count(1) = N /\ IsTruncated(1))

\* C1 witness: three findings offered to a collector of two, all calls returned.
C1_Witness ==
    /\ AllIdle(1)
    /\ maxResults[1] = 2
    /\ Len(offered[1]) = 3
    /\ Count(1) = 2
    /\ IsTruncated(1)

\* C2: with maxResults = N > 0 and Print calls racing from several
\* goroutines, the kept count never exceeds N in any state; and when every
\* call has returned the kept count is min(offered, N), the kept items are
\* exactly the first ones that took the mutex (none lost, none twice), and
\* truncated holds iff more than N were offered.
C2_ExactBoundUnderRaces ==
    maxResults[1] > 0 =>
        /\ Count(1) <= maxResults[1]
        /\ AllIdle(1) =>
              /\ Count(1) = Min(Len(offered[1]), maxResults[1])
              /\ KeptIsPrefix(1)
              /\ IsTruncated(1) <=> (Len(offered[1]) > maxResults[1])

\* C2 witness: one goroutine has just filled the collector to its bound and
\* still holds the mutex while another is blocked in Lock with its finding.
C2_Witness ==
    /\ maxResults[1] = 1
    /\ Count(1) = 1
    /\ mu[1] = 1
    /\ wpc[1][1] = "unlock"
    /\ wpc[1][2] = "lock"

(***************************************************************************)
(* A caller of Results() that keeps the returned slices and writes to      *)
(* them, as TestResultCollector_Results does.                              *)
(***************************************************************************)
\* results := collector.Results(), the slice kept by the caller
ResultsCall(c) ==
    /\ CanLock(c)
    /\ Len(ret) < MaxRet
    /\ ret' = Append(ret, Results(c))
    /\ UNCHANGED <<maxResults, results, truncated, mu, heap,
                   wpc, warg, offered, nmut, config, call, registry>>

\* results[i].DetectorType = "Modified" on returned slice k
MutateScalar(k, i) ==
    /\ nmut < MaxMut
    /\ ret' = [ret EXCEPT ![k][i].DetectorType = "Modified"]
    /\ nmut' = nmut + 1
    /\ UNCHANGED <<maxResults, results, truncated, mu, heap,
                   wpc, warg, offered, config, call, registry>>

\* results[i].ExtraData[key] = "Modified" (or SourceMetadata) on returned
\* slice k: a write through the map the field refers to.
MutateMap(k, i, field, key) ==
    /\ nmut < MaxMut
    /\ ret[k][i][field] # NilAddr
    /\ key \in DOMAIN heap[ret[k][i][field]]
    /\ heap' = [heap EXCEPT ![ret[k][i][field]] = MapSet(@, key, "Modified")]
    /\ nmut' = nmut + 1
    /\ UNCHANGED <<maxResults, results, truncated, mu, wpc,
                   warg, offered, ret, config, call, registry>>

CallerStep ==
    \/ ResultsCall(1)
    \/ \E k \in 1..Len(ret) : \E i \in 1..Len(ret[k]) : MutateScalar(k, i)
    \/ \E k \in 1..Len(ret) : \E i \in 1..Len(ret[k]) :
          \E field \in {"ExtraData", "SourceMetadata"} :
             \E key \in {"account", "type", "file"} : MutateMap(k, i, field, key)

NextResults ==
    \/ \E r \in RawPool : WorkerOffer(1, 1, r)
    \/ PrintStep(1, 1)
    \/ CallerStep

SpecResults == InitCollector /\ [][NextResults]_vars

\* What a holder of a slice of ScanResults observes: every field, the two
\* maps read through their references.
Observed(s, h) ==
    [i \in 1..Len(s) |->
        [s[i] EXCEPT
            !.ExtraData = IF @ = NilAddr THEN None ELSE Some(h[@]),
            !.SourceMetadata = IF @ = NilAddr THEN None ELSE Some(h[@])]]

\* C5: the slices Results() returns are independent copies: a write by the
\* caller to one returned finding (a scalar field, or an entry of its
\* ExtraData or SourceMetadata map) changes neither any other returned slice
\* nor what Results() returns afterwards, and a Print step changes no slice
\* already returned.
C5_IndependentCopies ==
    [][ /\ (nmut' # nmut) =>
              /\ Observed(Results(1), heap)' = Observed(Results(1), heap)
              /\ Cardinality({k \in 1..Len(ret) :
                     Observed(ret[k], heap)' # Observed(ret[k], heap)}) <= 1
        /\ (nmut' = nmut) =>
              \A k \in 1..Len(ret) : Observed(ret[k], heap)' = Observed(ret[k], heap)
      ]_vars

\* The part of C5 the shallow copy does give: writes to scalar fields of a
\* returned finding stay in that slice, and Print never reaches a returned
\* slice.
C5_ScalarsIndependent ==
    [][ /\ (nmut' # nmut /\ heap' = heap) =>
              /\ Observed(Results(1), heap)' = Observed(Results(1), heap)
              /\ Cardinality({k \in 1..Len(ret) :
                     Observed(ret[k], heap)' # Observed(ret[k], heap)}) <= 1
        /\ (nmut' = nmut) =>
              \A k \in 1..Len(ret) : Observed(ret[k], heap)' = Observed(ret[k], heap)
      ]_vars

(***************************************************************************)
(* Scanner: the entry points and the steps of one scan call.               *)
(***************************************************************************)
\* strings.HasPrefix(s, prefix)
HasPrefix(s, prefix) ==
    /\ Len(prefix) <= Len(s)
    /\ SubSeq(s, 1, Len(prefix)) = prefix

\* strings.Contains(s, substr)
Contains(s, substr) ==
    \E i \in 0..(Len(s) - Len(substr)) : SubSeq(s, i + 1, i + Len(substr)) = substr

\* strings.TrimPrefix(s, prefix)
TrimPrefix(s, prefix) ==
    IF HasPrefix(s, prefix) THEN SubSeq(s, Len(prefix) + 1, Len(s)) ELSE s

FilePrefix == <<"f", "i", "l", "e", ":", "/", "/">>
SchemeSep  == <<":", "/", "/">>

\* Paths and repository references a caller passes.
PathP    == <<"/", "p">>
UriFile  == FilePrefix \o <<"/", "r">>
UriBare  == <<"/", "r">>
UriHttps == <<"h", "t", "t", "p", "s">> \o SchemeSep \o <<"h", "/", "r">>
UriScp   == <<"g", "i", "t", "@", "h", ":", "r">>
Uris     == {UriFile, UriBare, UriHttps, UriScp}

\* The byte buffers a caller passes to ScanBytes.
Buffers == {<<>>, <<107>>}

\* opts: nil, or options carrying a Verify flag.
OptsSet == {None, Some([Verify |-> TRUE]), Some([Verify |-> FALSE])}

\* What os.Stat can answer: the FileInfo of a regular file or of a
\* directory, a not-exist error, or another error (permission denied).
StatOutcomes == {"file", "dir", "missing", "denied"}

\* os.IsNotExist(err) for the error of a Stat outcome
IsNotExist(st) == st = "missing"

\* fmt.Errorf(text + "%s", path) and fmt.Errorf(text + "%w", cause)
Errorf(text, path) == [text |-> text, path |-> path]

\* The per-call options ignored: always the Scanner's default.
EffectiveVerifyDefaultOnly(opts) == config.Verify

\* opts.Verify once "if opts == nil { opts = &ScanOptions{Verify: s.config.Verify} }" ran
EffectiveVerify(opts) == IF opts = None THEN config.Verify ELSE opts[1].Verify

\* return resp, err
Return(c, resp, err) ==
    call' = [call EXCEPT ![c].pc = "returned", ![c].resp = resp, ![c].err = err]

collUnchanged == UNCHANGED <<maxResults, results, truncated, mu>>
restUnchanged == UNCHANGED <<heap, wpc, warg, offered, ret, nmut, config, registry>>

\* ScanBytes without the empty-data return.
ScanBytesNoShortCircuit(c, data, opts) ==
    /\ call[c].pc = "idle"
    /\ call' = [call EXCEPT ![c].kind = "ScanBytes", ![c].arg = data,
                    ![c].opts = opts, ![c].pc = "setup"]
    /\ collUnchanged /\ restUnchanged

\* ScanBytes up to the empty-data return
ScanBytes(c, data, opts) ==
    /\ call[c].pc = "idle"
    /\ IF Len(data) = 0
       THEN call' = [call EXCEPT ![c].kind = "ScanBytes", ![c].arg = data,
                         ![c].opts = opts, ![c].pc = "returned",
                         ![c].resp = Some([Results |-> <<>>,
                             Summary |-> [ChunksScanned |-> 0, BytesScanned |-> 0,
                                          VerifiedSecrets |-> 0, UnverifiedSecrets |-> 0,
                                          Duration |-> 0, TotalResults |-> 0,
                                          Truncated |-> FALSE]])]
       ELSE call' = [call EXCEPT ![c].kind = "ScanBytes", ![c].arg = data,
                         ![c].opts = opts, ![c].pc = "setup"]
    /\ collUnchanged /\ restUnchanged

\* ScanFile with the existence check removed.
ScanFileNoCheck(c, path, opts, st) ==
    /\ call[c].pc = "idle"
    /\ call' = [call EXCEPT ![c].kind = "ScanFile", ![c].arg = path,
                    ![c].opts = opts, ![c].stat = st,
                    ![c].statted = Some(path), ![c].pc = "setup"]
    /\ collUnchanged /\ restUnchanged

\* ScanFile up to the call of scanFilesystem; st is what os.Stat(path) answers
ScanFile(c, path, opts, st) ==
    /\ call[c].pc = "idle"
    /\ IF IsNotExist(st)
       THEN call' = [call EXCEPT ![c].kind = "ScanFile", ![c].arg = path,
                         ![c].opts = opts, ![c].stat = st,
                         ![c].statted = Some(path), ![c].pc = "returned",
                         ![c].err = Some(Errorf("file does not exist: ", path))]
       ELSE call' = [call EXCEPT ![c].kind = "ScanFile", ![c].arg = path,
                         ![c].opts = opts, ![c].stat = st,
                         ![c].statted = Some(path), ![c].pc = "setup"]
    /\ collUnchanged /\ restUnchanged

\* ScanDirectory with the IsDir check removed.
ScanDirectoryNoDirCheck(c, path, opts, st) ==
    /\ call[c].pc = "idle"
    /\ IF IsNotExist(st)
       THEN call' = [call EXCEPT ![c].kind = "ScanDirectory", ![c].arg = path,
                         ![c].opts = opts, ![c].stat = st,
                         ![c].statted = Some(path), ![c].pc = "returned",
                         ![c].err = Some(Errorf("directory does not exist: ", path))]
       ELSE call' = [call EXCEPT ![c].kind = "ScanDirectory", ![c].arg = path,
                         ![c].opts = opts, ![c].stat = st,
                         ![c].statted = Some(path), ![c].pc = "setup"]
    /\ collUnchanged /\ restUnchanged

\* ScanDirectory up to the call of scanFilesystem.  On a Stat error other
\* than not-exist, info is nil and info.IsDir() panics.
ScanDirectory(c, path, opts, st) ==
    /\ call[c].pc = "idle"
    /\ IF IsNotExist(st)
       THEN call' = [call EXCEPT ![c].kind = "ScanDirectory", ![c].arg = path,
                         ![c].opts = opts, ![c].stat = st,
                         ![c].statted = Some(path), ![c].pc = "returned",
                         ![c].err = Some(Errorf("directory does not exist: ", path))]
       ELSE IF st = "denied"
       THEN call' = [call EXCEPT ![c].kind = "ScanDirectory", ![c].arg = path,
                         ![c].opts = opts, ![c].stat = st,
                         ![c].statted = Some(path), ![c].pc = "panicked"]
       ELSE IF st # "dir"
       THEN call' = [call EXCEPT ![c].kind = "ScanDirectory", ![c].arg = path,
                         ![c].opts = opts, ![c].stat = st,
                         ![c].statted = Some(path), ![c].pc = "returned",
                         ![c].err = Some(Errorf("path is not a directory: ", path))]
       ELSE call' = [call EXCEPT ![c].kind = "ScanDirectory", ![c].arg = path,
                         ![c].opts = opts, ![c].stat = st,
                         ![c].statted = Some(path), ![c].pc = "setup"]
    /\ collUnchanged /\ restUnchanged

\* The local-path rule with the bare-path branch removed.
GitLocalPathFileOnly(uri) ==
    IF HasPrefix(uri, FilePrefix) THEN Some(TrimPrefix(uri, FilePrefix)) ELSE None

\* The path ScanGitRepo validates for a reference, None when it validates none
GitLocalPath(uri) ==
    IF HasPrefix(uri, FilePrefix) THEN Some(TrimPrefix(uri, FilePrefix))
    ELSE IF ~Contains(uri, SchemeSep) THEN Some(uri)
    ELSE None

\* ScanGitRepo that looks for the local repository only after it has built
\* its collector and started its engine.
ScanGitRepoCheckAfterStart(c, uri, opts, st) ==
    /\ call[c].pc = "idle"
    /\ LET local == GitLocalPath(uri)
       IN IF local = None
          THEN call' = [call EXCEPT ![c].kind = "ScanGitRepo", ![c].arg = uri,
                            ![c].opts = opts, ![c].pc = "setup"]
          ELSE IF IsNotExist(st)
          THEN call' = [call EXCEPT ![c].kind = "ScanGitRepo", ![c].arg = uri,
                            ![c].opts = opts, ![c].stat = st,
                            ![c].statted = local, ![c].pc = "returned",
                            ![c].made = TRUE, ![c].engine = "started",
                            ![c].err = Some(Errorf("repository does not exist: ",
                                                   local[1]))]
          ELSE call' = [call EXCEPT ![c].kind = "ScanGitRepo", ![c].arg = uri,
                            ![c].opts = opts, ![c].stat = st,
                            ![c].statted = local, ![c].pc = "setup"]
    /\ collUnchanged /\ restUnchanged

\* ScanGitRepo up to the creation of the collector; st is what os.Stat
\* answers when it is asked
ScanGitRepo(c, uri, opts, st) ==
    /\ call[c].pc = "idle"
    /\ LET local == GitLocalPath(uri)
       IN IF local = None
          THEN call' = [call EXCEPT ![c].kind = "ScanGitRepo", ![c].arg = uri,
                            ![c].opts = opts, ![c].pc = "setup"]
          ELSE IF IsNotExist(st)
          THEN call' = [call EXCEPT ![c].kind = "ScanGitRepo", ![c].arg = uri,
                            ![c].opts = opts, ![c].stat = st,
                            ![c].statted = local, ![c].pc = "returned",
                            ![c].err = Some(Errorf("repository does not exist: ",
                                                   local[1]))]
          ELSE call' = [call EXCEPT ![c].kind = "ScanGitRepo", ![c].arg = uri,
                            ![c].opts = opts, ![c].stat = st,
                            ![c].statted = local, ![c].pc = "setup"]
    /\ collUnchanged /\ restUnchanged

(***************************************************************************)
(* The steps shared by ScanBytes, scanFilesystem and ScanGitRepo.  ok is   *)
(* the outcome of the external call the step makes.                        *)
(***************************************************************************)
\* collector := NewResultCollector(s.config.MaxResults); sourceManager, engConfig;
\* eng, err := engine.NewEngine(...); eng.Start(ctx); for ScanBytes also
\* NewBytesSource(..., opts.Verify)
SetupEngine(c, ok) ==
    /\ call[c].pc = "setup"
    /\ NewResultCollector(c, config.MaxResults)
    /\ LET verify == EffectiveVerify(call[c].opts)
       IN IF ~ok
          THEN call' = [call EXCEPT ![c].made = TRUE,
                            ![c].verifyEngine = Some(verify),
                            ![c].failedAt = "newEngine",
                            ![c].pc = "returned",
                            ![c].err = Some(Errorf("engine: ", <<>>))]
          ELSE IF call[c].kind = "ScanBytes"
          THEN call' = [call EXCEPT ![c].made = TRUE,
                            ![c].verifyEngine = Some(verify),
                            ![c].engine = "started",
                            ![c].verifySource = Some(verify),
                            ![c].fed = TRUE,
                            ![c].pc = "scan"]
          ELSE call' = [call EXCEPT ![c].made = TRUE,
                            ![c].verifyEngine = Some(verify),
                            ![c].engine = "started",
                            ![c].pc = "conn"]
    /\ restUnchanged

\* connAny, err := anypb.New(conn)
BuildConn(c, ok) ==
    /\ call[c].pc = "conn"
    /\ IF ok
       THEN call' = [call EXCEPT ![c].pc = "init"]
       ELSE call' = [call EXCEPT ![c].failedAt = "conn", ![c].pc = "returned",
                         ![c].err = Some(Errorf("failed to create connection: ", <<>>))]
    /\ collUnchanged /\ restUnchanged

\* fsSource.Init(...) / gitSource.Init(...) with opts.Verify
InitSource(c, ok) ==
    /\ call[c].pc = "init"
    /\ IF ok
       THEN call' = [call EXCEPT
                         ![c].verifySource = Some(EffectiveVerify(call[c].opts)),
                         ![c].fed = TRUE, ![c].pc = "scan"]
       ELSE call' = [call EXCEPT ![c].failedAt = "init", ![c].pc = "returned",
                         ![c].err = Some(Errorf(
                             IF call[c].kind = "ScanGitRepo"
                             THEN "failed to initialize git source: "
                             ELSE "failed to initialize filesystem source: ", <<>>))]
    /\ collUnchanged /\ restUnchanged

\* EnumerateAndScan whose error is dropped.
EnumerateAndScanIgnoreErr(c, ok) ==
    /\ call[c].pc = "scan"
    /\ IF ok
       THEN call' = [call EXCEPT ![c].pc = "finish"]
       ELSE call' = [call EXCEPT ![c].failedAt = "scan", ![c].pc = "finish"]
    /\ collUnchanged /\ restUnchanged

\* _, err = sourceManager.EnumerateAndScan(ctx, "mcp-scan", source)
EnumerateAndScan(c, ok) ==
    /\ call[c].pc = "scan"
    /\ IF ok
       THEN call' = [call EXCEPT ![c].pc = "finish"]
       ELSE call' = [call EXCEPT ![c].failedAt = "scan", ![c].pc = "returned",
                         ![c].err = Some(Errorf("enumerate and scan: ", <<>>))]
    /\ collUnchanged /\ restUnchanged

\* The pipeline has quiesced: no worker is inside or about to enter Print.
EngineQuiesced(c) == AllIdle(c)

\* err := eng.Finish(ctx): returns nil once the pipeline has quiesced
Finish(c, ok) ==
    /\ call[c].pc = "finish"
    /\ IF ok
       THEN /\ EngineQuiesced(c)
            /\ call' = [call EXCEPT ![c].engine = "finished", ![c].pc = "readResults"]
       ELSE call' = [call EXCEPT ![c].failedAt = "finish", ![c].pc = "returned",
                         ![c].err = Some(Errorf("finish: ", <<>>))]
    /\ collUnchanged /\ restUnchanged

\* eng.GetMetrics(): the pipeline's own counters
GetMetrics(c) ==
    [ChunksScanned          |-> 1,
     BytesScanned           |-> 1,
     VerifiedSecretsFound   |->
         Cardinality({i \in 1..Len(offered[c]) : offered[c][i].Verified}),
     UnverifiedSecretsFound |->
         Cardinality({i \in 1..Len(offered[c]) : ~offered[c][i].Verified}),
     ScanDuration           |-> 1]

\* Results: collector.Results()
ReadResults(c) ==
    /\ call[c].pc = "readResults"
    /\ CanLock(c)
    /\ call' = [call EXCEPT ![c].rResults = Results(c), ![c].pc = "readCount"]
    /\ collUnchanged /\ restUnchanged

\* TotalResults: collector.Count()
ReadCount(c) ==
    /\ call[c].pc = "readCount"
    /\ CanLock(c)
    /\ call' = [call EXCEPT ![c].rCount = Count(c), ![c].pc = "readTruncated"]
    /\ collUnchanged /\ restUnchanged

\* Truncated: collector.IsTruncated(); return &ScanResponse{...}, nil
ReadTruncated(c) ==
    /\ call[c].pc = "readTruncated"
    /\ CanLock(c)
    /\ LET m == GetMetrics(c)
       IN Return(c, Some([Results |-> call[c].rResults,
                          Summary |-> [ChunksScanned     |-> m.ChunksScanned,
                                       BytesScanned      |-> m.BytesScanned,
                                       VerifiedSecrets   |-> m.VerifiedSecretsFound,
                                       UnverifiedSecrets |-> m.UnverifiedSecretsFound,
                                       Duration          |-> m.ScanDuration,
                                       TotalResults      |-> call[c].rCount,
                                       Truncated         |-> IsTruncated(c)]]),
                  None)
    /\ collUnchanged /\ restUnchanged

\* The findings present in the scanned content, in the order the pipeline
\* comes upon them.
ContentFindings == <<AwsKey, StripeKey, AzureKey>>

NthFinding(k) == ContentFindings[((k - 1) % Len(ContentFindings)) + 1]

\* Findings the pipeline has handed to the dispatcher so far.
Emitted(c) == Len(offered[c]) + Pending(c)

\* A pipeline worker of a started engine detects the next finding of the
\* content it was fed and hands it to the dispatcher, which calls Print.
\* A call that has returned observes its engine no more.
EngineEmit(c, w) ==
    /\ call[c].engine = "started"
    /\ call[c].fed
    /\ call[c].pc \in {"scan", "finish"}
    /\ wpc[c][w] = "idle"
    /\ Emitted(c) < MaxOffer
    /\ wpc' = [wpc EXCEPT ![c][w] = "lock"]
    /\ warg' = [warg EXCEPT ![c][w] = NthFinding(Emitted(c) + 1)]
    /\ UNCHANGED <<maxResults, results, truncated, mu, heap, offered, ret, nmut,
                   config, call, registry>>

InitScan ==
    /\ config \in [MaxResults : 0..MaxN, Verify : BOOLEAN, Timeout : {ScanTimeout}]
    /\ maxResults = [c \in Calls |-> 0]
    /\ results = [c \in Calls |-> <<>>]
    /\ truncated = [c \in Calls |-> FALSE]
    /\ mu = [c \in Calls |-> 0]
    /\ heap = InitHeap
    /\ wpc = [c \in Calls |-> [w \in Workers |-> "idle"]]
    /\ warg = [c \in Calls |-> [w \in Workers |-> AwsKey]]
    /\ offered = [c \in Calls |-> <<>>]
    /\ ret = <<>>
    /\ nmut = 0
    /\ call = [c \in Calls |-> IdleCall]
    /\ registry = NewDetectorRegistry

\* The steps of a call after its entry point's validation.
PipelineStep(c) ==
    \/ \E ok \in BOOLEAN : SetupEngine(c, ok)
    \/ \E ok \in BOOLEAN : BuildConn(c, ok)
    \/ \E ok \in BOOLEAN : InitSource(c, ok)
    \/ \E ok \in BOOLEAN : EnumerateAndScan(c, ok)
    \/ \E ok \in BOOLEAN : Finish(c, ok)
    \/ ReadResults(c)
    \/ ReadCount(c)
    \/ ReadTruncated(c)

\* Entry points on every argument, option and Stat outcome, with content in
\* which the pipeline finds nothing.
NextValidate ==
    \/ \E data \in Buffers, opts \in OptsSet : ScanBytes(1, data, opts)
    \/ \E opts \in OptsSet, st \in StatOutcomes : ScanFile(1, PathP, opts, st)
    \/ \E opts \in OptsSet, st \in StatOutcomes : ScanDirectory(1, PathP, opts, st)
    \/ \E uri \in Uris, opts \in OptsSet, st \in StatOutcomes :
          ScanGitRepo(1, uri, opts, st)
    \/ PipelineStep(1)

SpecValidate == InitScan /\ [][NextValidate]_vars

\* A Scanner with the default Verify setting, called without options.
InitPipeline ==
    /\ InitScan
    /\ config.Verify = TRUE

\* Entry points called with nil options, with content in which the
\* pipeline's workers find up to MaxOffer findings.
NextPipeline ==
    \/ \E data \in Buffers : ScanBytes(1, data, None)
    \/ \E st \in StatOutcomes : ScanFile(1, PathP, None, st)
    \/ \E st \in StatOutcomes : ScanDirectory(1, PathP, None, st)
    \/ \E uri \in Uris, st \in StatOutcomes : ScanGitRepo(1, uri, None, st)
    \/ PipelineStep(1)
    \/ \E w \in Workers : EngineEmit(1, w)
    \/ \E w \in Workers : PrintStep(1, w)

SpecPipeline == InitPipeline /\ [][NextPipeline]_vars

(***************************************************************************)
(* Claims about scan calls: C3, C4, C6 are checked under SpecPipeline,      *)
(* C7 to C10 under SpecValidate.                                           *)
(***************************************************************************)
Returned(c)   == call[c].pc = "returned"
HasReport(c)  == Returned(c) /\ call[c].resp # None
Report(c)     == call[c].resp[1]

\* C3 as stated: in every report of a successful scan call, len(Results) is
\* min(findings emitted, MaxResults) when MaxResults > 0, Truncated holds
\* iff more findings were emitted than MaxResults, and TotalResults equals
\* len(Results).
C3_ReportInvariant ==
    \A c \in Calls :
        HasReport(c) =>
            LET E == Emitted(c)
                N == config.MaxResults
                R == Report(c)
            IN /\ (N > 0) => (Len(R.Results) = Min(E, N))
               /\ R.Summary.Truncated <=> (E > N)
               /\ R.Summary.TotalResults = Len(R.Results)

\* C3 amended: as C3, but Truncated holds iff MaxResults > 0 and more
\* findings were emitted than MaxResults; with MaxResults = 0 every emitted
\* finding is in Results and Truncated is false.
C3_ReportInvariantAmended ==
    \A c \in Calls :
        HasReport(c) =>
            LET E == Emitted(c)
                N == config.MaxResults
                R == Report(c)
            IN /\ (N > 0) => (Len(R.Results) = Min(E, N))
               /\ (N = 0) => (Len(R.Results) = E)
               /\ R.Summary.Truncated <=> (N > 0 /\ E > N)
               /\ R.Summary.TotalResults = Len(R.Results)

\* C3 witness: a report of a pipeline that emitted more than MaxResults.
C3_Witness ==
    /\ HasReport(1)
    /\ call[1].made
    /\ config.MaxResults = 1
    /\ Emitted(1) = 3
    /\ Len(Report(1).Results) = 1
    /\ Report(1).Summary.Truncated

C6_NoPartialReport ==
    \A c \in Calls :
        (call[c].failedAt # "") =>
            /\ Returned(c)
            /\ call[c].resp = None
            /\ call[c].err # None

\* C6 witness: enumerate-and-scan failed after the collector had kept a
\* finding, and the call returned only the error.
C6_Witness ==
    /\ Returned(1)
    /\ call[1].failedAt = "scan"
    /\ Count(1) > 0
    /\ call[1].resp = None
    /\ call[1].err # None

\* C7: every entry point, whatever Stat answers, ends by returning exactly
\* one of a report and an error; it never ends abnormally.
C7_ReportXorError ==
    \A c \in Calls :
        /\ call[c].pc # "panicked"
        /\ Returned(c) => ((call[c].resp # None) # (call[c].err # None))

\* C8 as stated: ScanFile passes validation only for an existing regular
\* file; a missing path fails with a not-found error naming the path, and
\* a path that exists but is not a regular file fails too, before any scan
\* work.
C8_FileMustBeRegular ==
    \A c \in Calls :
        (call[c].kind = "ScanFile" /\ call[c].pc # "idle") =>
            /\ (call[c].stat = "missing") =>
                  /\ Returned(c) /\ call[c].resp = None /\ ~call[c].made
                  /\ call[c].err = Some(Errorf("file does not exist: ", call[c].arg))
            /\ (call[c].stat = "dir") =>
                  /\ Returned(c) /\ call[c].resp = None /\ ~call[c].made
                  /\ call[c].err # None

\* C8 amended: ScanFile validates existence only.  A missing path fails
\* with a not-found error naming the path before any scan work; every other
\* Stat outcome (a regular file, a directory, a Stat error other than
\* not-exist) passes validation and the path goes to the filesystem scan, so
\* a ScanFile call never fails in validation unless the path is missing.
C8_FileMustExist ==
    \A c \in Calls :
        (call[c].kind = "ScanFile" /\ call[c].pc # "idle") =>
            /\ call[c].statted = Some(call[c].arg)
            /\ (call[c].stat = "missing") =>
                  /\ Returned(c) /\ call[c].resp = None /\ ~call[c].made
                  /\ call[c].err = Some(Errorf("file does not exist: ", call[c].arg))
            /\ (call[c].stat # "missing") =>
                  /\ call[c].pc # "panicked"
                  /\ (call[c].pc = "setup" \/ call[c].made)

\* C8 witness: ScanFile on a directory went on to the filesystem scan.
C8_Witness ==
    /\ call[1].kind = "ScanFile"
    /\ call[1].stat = "dir"
    /\ call[1].made
    /\ call[1].fed

\* C8 witness of the failing case: ScanFile on a missing path has returned.
C8_WitnessMissing ==
    /\ call[1].kind = "ScanFile"
    /\ call[1].stat = "missing"
    /\ Returned(1)

\* C9: ScanDirectory fails with "does not exist" when the path is missing
\* and with the distinct "not a directory" error when the path is a file;
\* only an existing directory goes on to scanning.
C9_DirectoryValidation ==
    \A c \in Calls :
        (call[c].kind = "ScanDirectory" /\ call[c].pc # "idle") =>
            /\ (call[c].stat = "missing") =>
                  /\ Returned(c) /\ call[c].resp = None /\ ~call[c].made
                  /\ call[c].err =
                         Some(Errorf("directory does not exist: ", call[c].arg))
            /\ (call[c].stat = "file") =>
                  /\ Returned(c) /\ call[c].resp = None /\ ~call[c].made
                  /\ call[c].err =
                         Some(Errorf("path is not a directory: ", call[c].arg))
            /\ (call[c].pc = "setup" \/ call[c].made) => (call[c].stat = "dir")
            /\ (call[c].stat = "dir") => (call[c].pc = "setup" \/ call[c].made)

\* C9 witness: ScanDirectory on a regular file has returned its error.
C9_Witness ==
    /\ call[1].kind = "ScanDirectory"
    /\ call[1].stat = "file"
    /\ Returned(1)
    /\ call[1].err # None

\* C10: ScanGitRepo checks a reference against the local filesystem exactly
\* when it has no "://" or starts with "file://" (then the path after the
\* prefix); such a reference whose path is missing fails with a not-found
\* error before a collector or engine exists; any other reference is never
\* looked up locally.
C10_GitPrevalidation ==
    \A c \in Calls :
        (call[c].kind = "ScanGitRepo" /\ call[c].pc # "idle") =>
            LET uri    == call[c].arg
                isFile == HasPrefix(uri, FilePrefix)
                isBare == ~Contains(uri, SchemeSep)
            IN /\ (isFile \/ isBare) <=> (call[c].statted # None)
               /\ isFile => call[c].statted = Some(SubSeq(uri, 8, Len(uri)))
               /\ (isBare /\ ~isFile) => call[c].statted = Some(uri)
               /\ ((isFile \/ isBare) /\ call[c].stat = "missing") =>
                     /\ Returned(c) /\ call[c].resp = None
                     /\ ~call[c].made /\ call[c].engine = "none"
                     /\ call[c].err # None
                     /\ call[c].err[1].text = "repository does not exist: "
                     /\ call[c].err[1].path = call[c].statted[1]
               /\ (~isFile /\ ~isBare) => call[c].stat = "none"

\* C10 witness: a file:// reference to a missing path has been refused.
C10_Witness ==
    /\ call[1].kind = "ScanGitRepo"
    /\ call[1].arg = UriFile
    /\ call[1].stat = "missing"
    /\ Returned(1)
    /\ call[1].err = Some(Errorf("repository does not exist: ", <<"/", "r">>))

\* C10 witness of the other side: a remote reference went on to scanning
\* without any Stat.
C10_WitnessRemote ==
    /\ call[1].kind = "ScanGitRepo"
    /\ call[1].arg = UriHttps
    /\ call[1].statted = None
    /\ call[1].made

\* C11: the Verify flag of a call is the Scanner's configured default when
\* the call has nil options and the options' own flag otherwise, whichever
\* way the two differ; and that one value is what both the engine config
\* and the content source receive.
C11_EffectiveVerify ==
    \A c \in Calls :
        LET expected == IF call[c].opts = None THEN config.Verify
                        ELSE call[c].opts[1].Verify
        IN /\ call[c].made => (call[c].verifyEngine = Some(expected))
           /\ call[c].fed  => (call[c].verifySource = Some(expected))
           /\ ~call[c].made => (call[c].verifyEngine = None)
           /\ ~call[c].fed  => (call[c].verifySource = None)

\* C11 witness: options asking for no verification on a Scanner whose
\* default is to verify; engine and source both got FALSE.
C11_Witness ==
    /\ config.Verify = TRUE
    /\ call[1].opts = Some([Verify |-> FALSE])
    /\ call[1].verifyEngine = Some(FALSE)
    /\ call[1].verifySource = Some(FALSE)

\* C11 witness of the other direction and of the nil case.
C11_WitnessDefault ==
    /\ config.Verify = FALSE
    /\ call[1].opts = None
    /\ call[1].verifyEngine = Some(FALSE)
    /\ call[1].verifySource = Some(FALSE)

(***************************************************************************)
(* The MCP tool handlers scan_text, scan_file and scan_git_repo.  Each     *)
(* reads its arguments, builds the options, calls the Scanner with a       *)
(* background context and turns what the Scanner returned into a           *)
(* CallToolResult.                                                         *)
(***************************************************************************)
\* args["verify"].(bool): None when the request carries no boolean verify
VerifyArgs == {None, Some(TRUE), Some(FALSE)}

\* args["text"].(string): absent, empty or a text
TextArgs == {None, Some(<<>>), Some(<<107>>)}

\* args["path"].(string): absent, empty, relative or absolute
PathArgs == {None, Some(<<>>), Some(<<"p">>), Some(PathP)}

\* args["uri"].(string): absent, empty or a repository reference
UriArgs == {None, Some(<<>>)} \cup {Some(u) : u \in Uris}

\* filepath.IsAbs(path) on a Unix path
IsAbs(path) == HasPrefix(path, <<"/">>)

\* opts := &ScanOptions{Verify: true}; if v, ok := args["verify"].(bool); ok { opts.Verify = v }
HandlerOpts(verifyArg) ==
    Some([Verify |-> IF verifyArg = None THEN TRUE ELSE verifyArg[1]])

\* &mcp.CallToolResult{Content: text, IsError: true}
ToolError(text) == Some([IsError |-> TRUE, Text |-> text, Body |-> None])

\* &mcp.CallToolResult{Content: json.MarshalIndent(response)}
ToolOk(resp) == Some([IsError |-> FALSE, Text |-> "", Body |-> resp])

\* The handler returns an error result before calling the Scanner.
Reject(c, tool, verifyArg, text) ==
    call' = [call EXCEPT ![c].tool = tool, ![c].reqVerify = verifyArg,
                         ![c].toolResult = ToolError(text)]

\* The handler has its argument and options and thCtx := Background().
Accept(c, tool, verifyArg, arg) ==
    call' = [call EXCEPT ![c].tool = tool, ![c].reqVerify = verifyArg,
                         ![c].harg = arg, ![c].hopts = HandlerOpts(verifyArg),
                         ![c].thCtx = "Background"]

\* ScanTextHandler up to the call of scanner.ScanText
ScanTextHandler(c, text, verifyArg) ==
    /\ call[c].pc = "idle"
    /\ call[c].tool = ""
    /\ IF text = None
       THEN Reject(c, "scan_text", verifyArg, "text parameter is required")
       ELSE Accept(c, "scan_text", verifyArg, text[1])
    /\ collUnchanged /\ restUnchanged

\* ScanFileHandler up to the call of scanner.ScanFile
ScanFileHandler(c, path, verifyArg) ==
    /\ call[c].pc = "idle"
    /\ call[c].tool = ""
    /\ IF path = None \/ path = Some(<<>>)
       THEN Reject(c, "scan_file", verifyArg, "path parameter is required")
       ELSE IF ~IsAbs(path[1])
       THEN Reject(c, "scan_file", verifyArg, "path must be an absolute path")
       ELSE Accept(c, "scan_file", verifyArg, path[1])
    /\ collUnchanged /\ restUnchanged

\* ScanGitRepoHandler up to the call of scanner.ScanGitRepo
ScanGitRepoHandler(c, uri, verifyArg) ==
    /\ call[c].pc = "idle"
    /\ call[c].tool = ""
    /\ IF uri = None \/ uri = Some(<<>>)
       THEN Reject(c, "scan_git_repo", verifyArg, "uri parameter is required")
       ELSE Accept(c, "scan_git_repo", verifyArg, uri[1])
    /\ collUnchanged /\ restUnchanged

\* The handler of tool is about to call the Scanner.
Calling(c, tool) ==
    /\ call[c].tool = tool
    /\ call[c].thCtx = "Background"
    /\ call[c].toolResult = None

\* strings.Contains(err.Error(), "does not exist")
MentionsNotExist(err) ==
    err.text \in {"file does not exist: ", "directory does not exist: ",
                  "repository does not exist: "}

\* if err != nil { return error result }; output := json.MarshalIndent(response);
\* return result
HandlerReturn(c) ==
    /\ call[c].tool # ""
    /\ call[c].toolResult = None
    /\ call[c].pc = "returned"
    /\ IF call[c].err # None
       THEN IF call[c].tool = "verify_secret"
            THEN call' = [call EXCEPT ![c].toolResult =
                              ToolError("verification failed: ")]
            ELSE IF call[c].tool = "scan_text" \/ ~MentionsNotExist(call[c].err[1])
            THEN call' = [call EXCEPT ![c].toolResult = ToolError("scan failed: ")]
            ELSE IF call[c].tool = "scan_file"
            THEN call' = [call EXCEPT ![c].toolResult = ToolError("file does not exist: ")]
            ELSE call' = [call EXCEPT ![c].toolResult =
                              ToolError("repository does not exist: ")]
       ELSE call' = [call EXCEPT ![c].toolResult = ToolOk(call[c].resp)]
    /\ collUnchanged /\ restUnchanged

\* The scan a handler started is between its entry and its return.
Running(c) == call[c].pc \notin {"idle", "returned", "panicked"}

\* The MCP client cancels the request: the ctx given to the handler is done.
CancelRequest(c) ==
    /\ call[c].tool # ""
    /\ Running(c)
    /\ ~call[c].cancelled
    /\ call' = [call EXCEPT ![c].cancelled = TRUE]
    /\ collUnchanged /\ restUnchanged

\* Time passes while the scan runs.
Tick(c) ==
    /\ call[c].tool # ""
    /\ Running(c)
    /\ call[c].elapsed <= config.Timeout
    /\ call' = [call EXCEPT ![c].elapsed = @ + 1]
    /\ collUnchanged /\ restUnchanged

\* ctx.Err() of a cancelled context and of one whose deadline passed
ContextCanceled  == Errorf("context canceled", <<>>)
DeadlineExceeded == Errorf("context deadline exceeded", <<>>)

NextTools ==
    \/ \E text \in TextArgs, v \in VerifyArgs : ScanTextHandler(1, text, v)
    \/ \E path \in PathArgs, v \in VerifyArgs : ScanFileHandler(1, path, v)
    \/ \E uri \in UriArgs, v \in VerifyArgs : ScanGitRepoHandler(1, uri, v)
    \/ Calling(1, "scan_text") /\ ScanBytes(1, call[1].harg, call[1].hopts)
    \/ Calling(1, "scan_file") /\
          \E st \in StatOutcomes : ScanFile(1, call[1].harg, call[1].hopts, st)
    \/ Calling(1, "scan_git_repo") /\
          \E st \in StatOutcomes : ScanGitRepo(1, call[1].harg, call[1].hopts, st)
    \/ PipelineStep(1)
    \/ HandlerReturn(1)
    \/ CancelRequest(1)
    \/ Tick(1)

\* A server whose handlers serve one request.
SpecTools == InitScan /\ [][NextTools]_vars

\* C12: on a server configured with Verify false, a scan_text, scan_file or
\* scan_git_repo request without a verify argument scans with verification
\* off, and a scan verifies only when its request asked for it.
C12_NoVerifyIsDefault ==
    \A c \in Calls :
        (call[c].tool # "" /\ ~config.Verify /\ call[c].made) =>
            /\ (call[c].reqVerify = None) => (call[c].verifyEngine = Some(FALSE))
            /\ (call[c].verifyEngine = Some(TRUE)) => (call[c].reqVerify = Some(TRUE))

\* C13: when the context given to a scan tool handler is cancelled while
\* its scan runs, the scan ends with a cancellation error and no report.
C13_CancellationHonoured ==
    \A c \in Calls :
        (call[c].cancelled /\ Returned(c)) =>
            /\ call[c].resp = None
            /\ call[c].err = Some(ContextCanceled)

\* C14: a scan that is still running when the configured timeout has
\* elapsed ends with a cancellation error and not with a report.
C14_TimeoutBoundsScan ==
    \A c \in Calls :
        (call[c].elapsed > config.Timeout /\ Returned(c)) =>
            /\ call[c].resp = None
            /\ call[c].err \in {Some(ContextCanceled), Some(DeadlineExceeded)}

\* C15: ScanBytes (and so ScanText) on a zero-length buffer, with or
\* without options, returns at once: no collector, engine or content source
\* is made, the error is nil, and the report has an empty results sequence
\* and a summary whose counters are all zero and whose truncated is false.
C15_EmptyBufferShortCircuit ==
    \A c \in Calls :
        (call[c].kind = "ScanBytes" /\ Len(call[c].arg) = 0 /\ call[c].pc # "idle") =>
            /\ Returned(c)
            /\ ~call[c].made /\ call[c].engine = "none" /\ ~call[c].fed
            /\ call[c].verifyEngine = None /\ call[c].verifySource = None
            /\ maxResults[c] = 0 /\ results[c] = <<>> /\ ~truncated[c]
            /\ call[c].err = None
            /\ call[c].resp # None
            /\ Report(c).Results = <<>>
            /\ Report(c).Summary =
                  [ChunksScanned |-> 0, BytesScanned |-> 0, VerifiedSecrets |-> 0,
                   UnverifiedSecrets |-> 0, Duration |-> 0, TotalResults |-> 0,
                   Truncated |-> FALSE]

\* C15 witness: an empty buffer scanned with explicit options has returned
\* its report.
C15_Witness ==
    /\ call[1].kind = "ScanBytes"
    /\ call[1].arg = <<>>
    /\ call[1].opts = Some([Verify |-> TRUE])
    /\ HasReport(1)
    /\ ~call[1].made

(***************************************************************************)
(* Several content scans in flight on one Scanner, each with its own       *)
(* pipeline worker.                                                        *)
(***************************************************************************)
\* Findings all the pipelines together have handed to their dispatchers.
RECURSIVE TotalEmitted(_)
TotalEmitted(k) == IF k = 0 THEN 0 ELSE Emitted(k) + TotalEmitted(k - 1)

NextIsolation ==
    \E c \in Calls :
        \/ ScanBytes(c, <<107>>, None)
        \/ SetupEngine(c, TRUE)
        \/ EnumerateAndScan(c, TRUE)
        \/ Finish(c, TRUE)
        \/ ReadResults(c)
        \/ ReadCount(c)
        \/ ReadTruncated(c)
        \/ TotalEmitted(NumCalls) < MaxOffer /\ EngineEmit(c, 1)
        \/ PrintStep(c, 1)

SpecIsolation == InitPipeline /\ [][NextIsolation]_vars

\* C16: whatever the interleaving of scan calls on one Scanner, every call
\* has a collector of its own sized to the configured MaxResults, that
\* collector holds only findings of the call's own pipeline, and the call's
\* report has exactly those: its items, kept count and truncated flag are
\* what the call's own emitted findings alone determine.
C16_CallsIsolated ==
    \A c \in Calls :
        LET E == Len(offered[c])
            N == config.MaxResults
            K == IF N = 0 THEN E ELSE Min(E, N)
        IN /\ call[c].made => (maxResults[c] = N)
           /\ KeptIsPrefix(c)
           /\ HasReport(c) =>
                 /\ DerefAll(Report(c).Results, heap) =
                        [i \in 1..K |-> ConvertResult(offered[c][i])]
                 /\ Report(c).Summary.TotalResults = K
                 /\ Report(c).Summary.Truncated <=> (N > 0 /\ E > N)

\* C16 witness: two calls overlapped and returned reports of different
\* sizes, one truncated and one not.
C16_Witness ==
    /\ HasReport(1) /\ HasReport(2)
    /\ config.MaxResults = 1
    /\ Len(offered[1]) = 2 /\ Len(Report(1).Results) = 1
    /\ Report(1).Summary.Truncated
    /\ Len(offered[2]) = 1 /\ Len(Report(2).Results) = 1
    /\ ~Report(2).Summary.Truncated

(***************************************************************************)
(* ConvertResult on every shape of raw finding: one Print call on an       *)
(* unbounded collector, its argument drawn from ConvertInputs.             *)
(***************************************************************************)
\* The provenance objects a finding can carry: none, or one of each kind
\* with and without its payload, with a negative, zero or positive line.
MetaInputs ==
    {None} \cup
    {Some(MkMeta(tag, body, "test.go", line, "repo", "abc123")) :
        tag \in MetaTags, body \in BOOLEAN, line \in {-1, 0, 42}}

\* The raw findings: with and without an engine-provided detector name,
\* verified or not, with and without raw bytes.
ConvertInputs ==
    {MkRaw("DetectorType_AWS", name, verified, raw, "AK**", 1, "DecoderType_PLAIN",
           None, meta) :
        name \in {"", "AWS Access Key"}, verified \in BOOLEAN,
        raw \in {<<>>, <<65, 75>>}, meta \in MetaInputs}

InitConvert ==
    /\ maxResults = [c \in Calls |-> 0]
    /\ results = [c \in Calls |-> <<>>]
    /\ truncated = [c \in Calls |-> FALSE]
    /\ mu = [c \in Calls |-> 0]
    /\ heap = InitHeap
    /\ \E r \in ConvertInputs :
          warg = [c \in Calls |-> [w \in Workers |-> r]]
    /\ wpc = [c \in Calls |-> [w \in Workers |->
                 IF c = 1 /\ w = 1 THEN "lock" ELSE "idle"]]
    /\ offered = [c \in Calls |-> <<>>]
    /\ ret = <<>>
    /\ nmut = 0
    /\ config = [MaxResults |-> 0, Verify |-> TRUE, Timeout |-> ScanTimeout]
    /\ call = [c \in Calls |-> IdleCall]
    /\ registry = NewDetectorRegistry

SpecConvert == InitConvert /\ [][PrintStep(1, 1)]_vars

\* The kinds convertSourceMetadata has a case for, and the discriminator
\* each is to be reported under.
KnownKinds == {"Filesystem", "Git", "Github", "Gitlab", "Stdin"}

KindName(tag) ==
    CASE tag = "Filesystem" -> "filesystem"
      [] tag = "Git"        -> "git"
      [] tag = "Github"     -> "github"
      [] tag = "Gitlab"     -> "gitlab"
      [] tag = "Stdin"      -> "stdin"

\* The provenance map of kept item i as its holder reads it, None when nil.
KeptProvenance(i) ==
    IF results[1][i].SourceMetadata = NilAddr THEN None
    ELSE Some(heap[results[1][i].SourceMetadata])

\* C17: a converted finding's display name is the engine-provided detector
\* name when there is one and the detector identifier otherwise, so it is
\* never empty; identifier, verified, redacted, extra data and decoder are
\* copied as they are.
C17_DisplayNameFallback ==
    \A i \in 1..Len(results[1]) :
        LET r == offered[1][i]
            k == results[1][i]
        IN /\ k.DetectorName = IF r.DetectorName # "" THEN r.DetectorName
                               ELSE DetectorTypeString(r.DetectorType)
           /\ k.DetectorName # ""
           /\ k.DetectorType = DetectorTypeString(r.DetectorType)
           /\ k.Verified = r.Verified
           /\ k.Redacted = r.Redacted
           /\ k.ExtraData = r.ExtraData
           /\ k.DecoderType = DecoderTypeString(r.DecoderType)

\* C18: a finding without a provenance object converts to an item with no
\* provenance map (nil), and a finding whose provenance object has an unset
\* or unrecognised kind converts to exactly the map type -> "unknown".
C18_AbsentVersusUnknown ==
    \A i \in 1..Len(results[1]) :
        LET meta == offered[1][i].SourceMetadata
        IN /\ (meta = None) => (KeptProvenance(i) = None)
           /\ (meta # None /\ meta[1].tag \notin KnownKinds) =>
                 (KeptProvenance(i) = Some([type |-> "unknown"]))
           /\ (meta # None) => (KeptProvenance(i) # None)

\* C18 witness: a finding tagged with a kind the conversion does not know
\* was kept with the "unknown" map.
C18_Witness ==
    /\ Len(results[1]) = 1
    /\ offered[1][1].SourceMetadata # None
    /\ offered[1][1].SourceMetadata[1].tag = "Docker"
    /\ KeptProvenance(1) = Some([type |-> "unknown"])

\* C18 witness of absence: a finding without provenance was kept with none.
C18_WitnessAbsent ==
    /\ Len(results[1]) = 1
    /\ offered[1][1].SourceMetadata = None
    /\ KeptProvenance(1) = None

\* C19: a provenance object of a known kind, its payload present or not,
\* converts to a non-empty map whose "type" names the kind, holding a line
\* only when the line is positive.
C19_KnownKindsAreTyped ==
    \A i \in 1..Len(results[1]) :
        LET meta == offered[1][i].SourceMetadata
        IN (meta # None /\ meta[1].tag \in KnownKinds) =>
              /\ KeptProvenance(i) # None
              /\ DOMAIN KeptProvenance(i)[1] # {}
              /\ "type" \in DOMAIN KeptProvenance(i)[1]
              /\ KeptProvenance(i)[1]["type"] = KindName(meta[1].tag)
              /\ ("line" \in DOMAIN KeptProvenance(i)[1]) => (meta[1].Line > 0)

(***************************************************************************)
(* Lookups on the detector registry.  After construction the registry is   *)
(* only read, under its read lock.                                         *)
(***************************************************************************)
\* GetInfo(detectorType): the descriptor copy and the error
GetInfo(detectorType) ==
    LET key == ToLower(detectorType)
    IN IF key \in DOMAIN registry.detectors
       THEN [info |-> Some(registry.detectors[key]), err |-> None]
       ELSE [info |-> None,
             err  |-> Some(Errorf("unknown detector type: ", detectorType))]

\* Exists(detectorType)
Exists(detectorType) == ToLower(detectorType) \in DOMAIN registry.detectors

\* The two spellings of each letter.
LetterPairs ==
    {<<"a", "A">>, <<"w", "W">>, <<"s", "S">>, <<"g", "G">>, <<"c", "C">>, <<"p", "P">>}

SameLetter(x, y) == x = y \/ <<x, y>> \in LetterPairs \/ <<y, x>> \in LetterPairs

\* t is s with some letters in the other case
CaseVariant(s, t) ==
    /\ Len(s) = Len(t)
    /\ \A i \in 1..Len(s) : SameLetter(s[i], t[i])

\* The identifiers callers ask about: every spelling of two registered
\* detectors and some strings that name none.
Idents ==
    {<<a, w, s>> : a \in {"a", "A"}, w \in {"w", "W"}, s \in {"s", "S"}}
        \cup {<<g, c, p>> : g \in {"g", "G"}, c \in {"c", "C"}, p \in {"p", "P"}}
        \cup {<<>>, <<"x">>, <<"a", "w">>, <<"A", "W", "S", "x">>}

\* info, err := registry.GetInfo(x), recorded by the caller
GetInfoCall(x) ==
    /\ Len(registry.calls) < MaxLookups
    /\ registry' = [registry EXCEPT !.calls =
           Append(@, [op |-> "GetInfo", arg |-> x, info |-> GetInfo(x).info,
                      err |-> GetInfo(x).err, ok |-> GetInfo(x).info # None])]
    /\ UNCHANGED <<collVars, workVars, callerVars, scanVars, heap>>

\* ok := registry.Exists(x), recorded by the caller
ExistsCall(x) ==
    /\ Len(registry.calls) < MaxLookups
    /\ registry' = [registry EXCEPT !.calls =
           Append(@, [op |-> "Exists", arg |-> x, info |-> None,
                      err |-> None, ok |-> Exists(x)])]
    /\ UNCHANGED <<collVars, workVars, callerVars, scanVars, heap>>

NextCatalog ==
    \/ \E x \in Idents : GetInfoCall(x)
    \/ \E x \in Idents : ExistsCall(x)

\* A server's registry next to its Scanner, no scan in flight.
InitCatalog ==
    /\ InitPipeline
    /\ config.MaxResults = MaxN

SpecCatalog == InitCatalog /\ [][NextCatalog]_vars

\* C20: lookups do not depend on the case of the identifier.  For every
\* identifier and every case variant of it Exists answers the same and
\* GetInfo returns the same descriptor, whose Type is the registered
\* spelling; GetInfo succeeds exactly when Exists is true; when nothing
\* matches GetInfo returns no descriptor and an "unknown detector type"
\* error and Exists answers false.  Stated of every lookup made and of
\* every two lookups made on the same registry.
C20_CaseInsensitiveLookup ==
    \A i \in 1..Len(registry.calls) :
        LET x   == registry.calls[i].arg
            got == registry.calls[i]
        IN /\ got.ok <=> \E k \in 1..Len(DefaultDetectors) :
                             CaseVariant(DefaultDetectors[k].Type, x)
           /\ (got.op = "GetInfo" /\ got.ok) =>
                 /\ got.err = None
                 /\ got.info # None
                 /\ CaseVariant(got.info[1].Type, x)
                 /\ \E k \in 1..Len(DefaultDetectors) :
                       got.info[1].Type = DefaultDetectors[k].Type
           /\ (got.op = "GetInfo" /\ ~got.ok) =>
                 /\ got.info = None
                 /\ got.err = Some(Errorf("unknown detector type: ", x))
           /\ \A j \in 1..Len(registry.calls) :
                 CaseVariant(x, registry.calls[j].arg) =>
                     /\ got.ok = registry.calls[j].ok
                     /\ (got.op = registry.calls[j].op) =>
                           (got.info = registry.calls[j].info)

\* C20 witness: GetInfo("aws") and Exists("Aws") were called; the first
\* returned the descriptor registered as "AWS", the second true.
C20_Witness ==
    /\ Len(registry.calls) = 2
    /\ registry.calls[1].op = "GetInfo"
    /\ registry.calls[1].arg = <<"a", "w", "s">>
    /\ registry.calls[1].info # None
    /\ registry.calls[1].info[1].Type = <<"A", "W", "S">>
    /\ registry.calls[2].op = "Exists"
    /\ registry.calls[2].arg = <<"A", "w", "s">>
    /\ registry.calls[2].ok

(***************************************************************************)
(* Listing the catalog, and what callers do with the descriptors they are  *)
(* handed.  A descriptor is a struct value whose Keywords field is a slice *)
(* header; copying the struct copies the header, not the backing array.    *)
(***************************************************************************)
\* What the holder of descriptor info reads: the scalars, and the keywords
\* found through the slice header.
Described(info) ==
    [info EXCEPT !.Keywords = SubSeq(registry.arrays[@.array], 1, @.len)]

\* A filter that must start the identifier.
ListMatchPrefixOnly(filter, info) ==
    filter = <<>> \/ HasPrefix(ToLower(info.Type), filter)

\* The test List applies to each descriptor (it skips the others); filter
\* is already lower-cased.
ListMatch(filter, info) ==
    ~(filter # <<>> /\ ~Contains(ToLower(info.Type), filter))

\* The orders in which one range over the map r.detectors can visit its
\* keys: the language leaves the order open and the runtime varies it from
\* one range statement to the next.
MapOrders ==
    {o \in [1..Cardinality(DOMAIN registry.detectors) -> DOMAIN registry.detectors] :
        \A i, j \in DOMAIN o : i # j => o[i] # o[j]}

\* List(filter, includeDeprecated) when the range visits the keys in order
List(filter, includeDeprecated, order) ==
    LET f       == ToLower(filter)
        visited == [i \in 1..Len(order) |-> registry.detectors[order[i]]]
    IN SelectSeq(visited, LAMBDA info : ListMatch(f, info))

\* DetectorRegistry.Count()
CountDetectors == Cardinality(DOMAIN registry.detectors)

\* GetCatalog(): total and detectors of List("", false)
GetCatalog(order) ==
    [total |-> Len(List(<<>>, FALSE, order)), detectors |-> List(<<>>, FALSE, order)]

\* The filters callers list with: none, one inside an identifier in either
\* case, one that matches nothing.
ListFilters == {<<>>, <<"c">>, <<"C">>, <<"x">>}

\* The identifiers callers describe.
DescribeIdents == {<<"a", "w", "s">>, <<"x">>}

\* out := registry.List(filter, dep), recorded by the caller
ListCall(filter, dep, order) ==
    /\ Len(registry.calls) + Len(registry.lists) < MaxLookups
    /\ registry' = [registry EXCEPT !.lists =
           Append(@, [filter |-> filter, dep |-> dep,
                      out |-> List(filter, dep, order), count |-> CountDetectors])]
    /\ UNCHANGED <<collVars, workVars, callerVars, scanVars, heap>>

\* info, err := registry.GetInfo(x) in a caller that also lists
DescribeCall(x) ==
    /\ Len(registry.calls) + Len(registry.lists) < MaxLookups
    /\ GetInfoCall(x)

\* info.Description = "mutated" on the descriptor lookup i returned
MutateInfoScalar(i) ==
    /\ nmut < MaxMut
    /\ registry.calls[i].info # None
    /\ registry' = [registry EXCEPT !.calls[i].info =
           Some([@[1] EXCEPT !.Description = "mutated"])]
    /\ nmut' = nmut + 1
    /\ UNCHANGED <<collVars, workVars, ret, scanVars, heap>>

\* info.Keywords[0] = "mutated" on the descriptor lookup i returned: a
\* write through the slice header into the backing array
MutateInfoKeyword(i) ==
    /\ nmut < MaxMut
    /\ registry.calls[i].info # None
    /\ registry.calls[i].info[1].Keywords.len > 0
    /\ registry' = [registry EXCEPT
           !.arrays[registry.calls[i].info[1].Keywords.array][1] = "mutated"]
    /\ nmut' = nmut + 1
    /\ UNCHANGED <<collVars, workVars, ret, scanVars, heap>>

\* out[j].Name = "mutated" on element j of the sequence listing i returned
MutateListedScalar(i, j) ==
    /\ nmut < MaxMut
    /\ registry' = [registry EXCEPT !.lists[i].out[j].Name = "mutated"]
    /\ nmut' = nmut + 1
    /\ UNCHANGED <<collVars, workVars, ret, scanVars, heap>>

\* out[j].Keywords[0] = "mutated" on element j of listing i
MutateListedKeyword(i, j) ==
    /\ nmut < MaxMut
    /\ registry.lists[i].out[j].Keywords.len > 0
    /\ registry' = [registry EXCEPT
           !.arrays[registry.lists[i].out[j].Keywords.array][1] = "mutated"]
    /\ nmut' = nmut + 1
    /\ UNCHANGED <<collVars, workVars, ret, scanVars, heap>>

NextListing ==
    \/ \E x \in DescribeIdents : DescribeCall(x)
    \/ \E f \in ListFilters, dep \in BOOLEAN, o \in MapOrders : ListCall(f, dep, o)
    \/ \E i \in 1..Len(registry.calls) : MutateInfoScalar(i)
    \/ \E i \in 1..Len(registry.calls) : MutateInfoKeyword(i)
    \/ \E i \in 1..Len(registry.lists) :
          \E j \in 1..Len(registry.lists[i].out) : MutateListedScalar(i, j)
    \/ \E i \in 1..Len(registry.lists) :
          \E j \in 1..Len(registry.lists[i].out) : MutateListedKeyword(i, j)

SpecListing == InitCatalog /\ [][NextListing]_vars

\* The descriptor the registry was built with for default detector k, as a
\* reader sees it.
Registered(k) ==
    [MkDetectorInfo(DefaultDetectors[k]) EXCEPT
        !.Keywords = DefaultDetectors[k].Keywords]

\* C21: GetInfo returns a defensive copy.  Whatever callers did to the
\* descriptors they were handed (to a scalar field or to an element of the
\* Keywords sequence), GetInfo and List still return every descriptor as it
\* was registered.
C21_DefensiveCopy ==
    /\ \A x \in DescribeIdents :
          GetInfo(x).info # None =>
             \E k \in 1..Len(DefaultDetectors) :
                Described(GetInfo(x).info[1]) = Registered(k)
    /\ \A o \in MapOrders :
          \A j \in 1..Len(List(<<>>, FALSE, o)) :
             \E k \in 1..Len(DefaultDetectors) :
                Described(List(<<>>, FALSE, o)[j]) = Registered(k)

\* The part of C21 the struct copy does give: as long as no caller wrote
\* through a Keywords slice, GetInfo and List return every descriptor as
\* it was registered, whatever was written to the scalar fields of the
\* copies.
C21_ScalarsIndependent ==
    (registry.arrays = KeywordArrays) => C21_DefensiveCopy

\* A caller wrote to a scalar field of the descriptor GetInfo gave it.
C21_ScalarWritten ==
    \E i \in 1..Len(registry.calls) :
        /\ registry.calls[i].info # None
        /\ registry.calls[i].info[1].Description = "mutated"
        /\ registry.arrays = KeywordArrays

\* identifier contains filter when case is ignored: some window of the
\* identifier is the filter with letters in either case
ContainsIgnoringCase(ident, filter) ==
    \E a \in 0..(Len(ident) - Len(filter)) :
        CaseVariant(SubSeq(ident, a + 1, a + Len(filter)), filter)

\* The identifiers of the descriptors in a returned sequence.
TypesOf(out) == {out[j].Type : j \in 1..Len(out)}

\* C22: List(filter, includeDeprecated) returns exactly the descriptors
\* whose identifier contains the filter case-insensitively, each once: with
\* the empty filter all of them, as many as Count(); with a filter nothing
\* contains an empty sequence; filters that differ only in case give the
\* same set, and so do the two values of includeDeprecated.
C22_ListFilter ==
    /\ \A i \in 1..Len(registry.lists) :
          LET got == registry.lists[i]
          IN /\ TypesOf(got.out) =
                   {DefaultDetectors[k].Type : k \in
                       {n \in 1..Len(DefaultDetectors) :
                           ContainsIgnoringCase(DefaultDetectors[n].Type, got.filter)}}
             /\ Len(got.out) = Cardinality(TypesOf(got.out))
             /\ (got.filter = <<>>) => (Len(got.out) = got.count)
             /\ \A j \in 1..Len(registry.lists) :
                   CaseVariant(got.filter, registry.lists[j].filter) =>
                       TypesOf(got.out) = TypesOf(registry.lists[j].out)
    /\ \A o \in MapOrders : GetCatalog(o).total = CountDetectors

\* C22 witness: List("c", false) and List("C", true) were called and each
\* returned the one descriptor whose identifier contains the letter.
C22_Witness ==
    /\ Len(registry.lists) = 2
    /\ registry.lists[1].filter = <<"c">> /\ ~registry.lists[1].dep
    /\ registry.lists[2].filter = <<"C">> /\ registry.lists[2].dep
    /\ TypesOf(registry.lists[1].out) = {<<"G", "C", "P">>}
    /\ TypesOf(registry.lists[2].out) = {<<"G", "C", "P">>}

\* C22, second case reached: a filter nothing contains returned an empty
\* sequence and the empty filter every descriptor.
C22_WitnessEmpty ==
    /\ Len(registry.lists) = 2
    /\ registry.lists[1].filter = <<"x">> /\ registry.lists[1].out = <<>>
    /\ registry.lists[2].filter = <<>> /\ Len(registry.lists[2].out) = CountDetectors

\* C23: the order of List is stable within a process run: two List calls
\* with the same filter return the same descriptors in the same order.
C23_StableOrder ==
    \A i, j \in 1..Len(registry.lists) :
        (registry.lists[i].filter = registry.lists[j].filter) =>
            [n \in 1..Len(registry.lists[i].out) |-> registry.lists[i].out[n].Type]
              = [n \in 1..Len(registry.lists[j].out) |-> registry.lists[j].out[n].Type]

\* The part of C23 the code does give: two List calls with the same filter
\* return the same descriptors.
C23_SameSet ==
    \A i, j \in 1..Len(registry.lists) :
        (registry.lists[i].filter = registry.lists[j].filter) =>
            TypesOf(registry.lists[i].out) = TypesOf(registry.lists[j].out)

(***************************************************************************)
(* BytesSource at work.  Chunks hands the buffer to the generic chunker,   *)
(* which sends each chunk on the channel it was given; ChunkUnit runs      *)
(* Chunks in a goroutine of its own and forwards what arrives on an        *)
(* unbuffered channel to the reporter.                                     *)
(***************************************************************************)
\* The buffers sources are built over: none, one or several chunks long.
ChunkBuffers ==
    {[i \in 1..n |-> 106 + i] : n \in {0, 1, ChunkSize + 1, 2 * ChunkSize + 1}}

\* The pieces the chunker cuts a buffer into, none for an empty buffer.
Segments(data) ==
    [i \in 1..((Len(data) + ChunkSize - 1) \div ChunkSize) |->
        SubSeq(data, (i - 1) * ChunkSize + 1, Min(i * ChunkSize, Len(data)))]

\* Where reading a buffer can fail: nowhere for an empty one (the chunker
\* returns at once), else before any of its chunks.
FailPoints(data) ==
    {None} \cup {Some(k) : k \in 0..(Len(Segments(data)) - 1)}

\* NewBytesSource(name, data, verify)
NewBytesSource(name, data, verify) ==
    [NoSource EXCEPT !.made = TRUE, !.name = name, !.data = data, !.verify = verify]

\* s.Type()
Type(s) == "SOURCE_TYPE_STDIN"

\* chunkSkel in Chunks
ChunkSkel(s) ==
    [SourceType |-> Type(s), SourceName |-> s.name, SourceID |-> 0, JobID |-> 0,
     SourceMetadata |-> "Stdin", Verify |-> s.verify, Data |-> <<>>]

\* The chunks handlers.HandleFile reports for the source's buffer: the
\* skeleton with one segment each.
HandleFileChunks(s) ==
    [i \in 1..Len(Segments(s.data)) |-> [ChunkSkel(s) EXCEPT !.Data = Segments(s.data)[i]]]

\* A step that changes the source of call c only.
SrcStep(c, new) ==
    /\ call' = [call EXCEPT ![c].src = new]
    /\ collUnchanged /\ restUnchanged

\* A caller builds a source of its own and will run it itself.
MakeSource(c, data, verify, failAt) ==
    /\ call[c].pc = "idle"
    /\ ~call[c].src.made
    /\ failAt \in FailPoints(data)
    /\ SrcStep(c, [NewBytesSource("mcp-scan", data, verify) EXCEPT !.failAt = failAt])

\* bytesSource := NewBytesSource("mcp-scan", data, opts.Verify) in ScanBytes
ScanMakeSource(c, failAt) ==
    /\ call[c].pc = "scan"
    /\ call[c].kind = "ScanBytes"
    /\ ~call[c].src.made
    /\ failAt \in FailPoints(call[c].arg)
    /\ SrcStep(c, [NewBytesSource("mcp-scan", call[c].arg, call[c].verifySource[1])
                      EXCEPT !.failAt = failAt])

\* The context the source runs under is cancelled.
CancelCtx(c) ==
    /\ call[c].src.made
    /\ ~call[c].src.ctxDone
    /\ SrcStep(c, [call[c].src EXCEPT !.ctxDone = TRUE])

\* s.Chunks(ctx, chunksChan) called directly, the caller receiving
ChunksCall(c) ==
    /\ call[c].src.made
    /\ call[c].src.run["direct"].pc = "none"
    /\ SrcStep(c, [call[c].src EXCEPT !.run["direct"].pc = "running"])

\* Inside Chunks, handlers.HandleFile between two chunks: it fails, has no
\* chunk left and returns nil, or goes to send the next chunk.  When Chunks
\* returns inside ChunkUnit's goroutine the deferred close(ch) runs.
HandleFileNext(c, r) ==
    LET s   == call[c].src
        run == s.run[r]
    IN /\ run.pc = "running"
       /\ SrcStep(c, [s EXCEPT !.run[r] =
              IF s.failAt = Some(run.sent)
              THEN [run EXCEPT !.pc = "returned", !.err = Some("chunker failed")]
              ELSE IF run.sent = Len(HandleFileChunks(s))
              THEN [run EXCEPT !.pc = "returned"]
              ELSE [run EXCEPT !.pc = "sending"]])

\* The blocked send gives up because the context is done, and Chunks
\* returns the context's error.
SendCancelled(c, r) ==
    LET s   == call[c].src
        run == s.run[r]
    IN /\ run.pc = "sending"
       /\ s.ctxDone
       /\ SrcStep(c, [s EXCEPT !.run[r] =
              [run EXCEPT !.pc = "returned", !.err = Some("context canceled")]])

\* The caller of Chunks receives the chunk being sent.
DirectReceive(c) ==
    LET s   == call[c].src
        run == s.run["direct"]
    IN /\ run.pc = "sending"
       /\ SrcStep(c, [s EXCEPT !.run["direct"] =
              [run EXCEPT !.pc = "running", !.sent = @ + 1,
                          !.got = Append(@, HandleFileChunks(s)[run.sent + 1])]])

\* s.Enumerate(ctx, reporter): reporter.UnitOk(ctx, unit)
Enumerate(c) ==
    /\ call[c].src.made
    /\ call[c].src.units = <<>>
    /\ SrcStep(c, [call[c].src EXCEPT !.units = Append(@, "<bytes>")])

\* s.ChunkUnit(ctx, unit, reporter) up to its range loop: the channel is
\* made and the goroutine running Chunks started.
ChunkUnit(c) ==
    /\ call[c].src.units # <<>>
    /\ call[c].src.cpc = "idle"
    /\ SrcStep(c, [call[c].src EXCEPT !.cpc = "ranging", !.run["unit"].pc = "running"])

\* A range loop that passes on nothing it receives.
UnitForwardNothing(c, ok) ==
    LET s   == call[c].src
        run == s.run["unit"]
    IN /\ run.pc = "sending"
       /\ s.cpc = "ranging"
       /\ SrcStep(c, [s EXCEPT !.run["unit"] =
              [run EXCEPT !.pc = "running", !.sent = @ + 1]])

\* One turn of ChunkUnit's range loop: the chunk being sent is received
\* and handed to reporter.ChunkOk, whose error, if any, ChunkUnit returns.
UnitForward(c, ok) ==
    LET s   == call[c].src
        run == s.run["unit"]
    IN /\ run.pc = "sending"
       /\ s.cpc = "ranging"
       /\ SrcStep(c,
            IF ok
            THEN [s EXCEPT !.run["unit"] =
                     [run EXCEPT !.pc = "running", !.sent = @ + 1,
                                 !.got = Append(@, HandleFileChunks(s)[run.sent + 1])]]
            ELSE [s EXCEPT !.run["unit"] = [run EXCEPT !.pc = "running", !.sent = @ + 1],
                           !.cpc = "returned",
                           !.unitErr = Some("reporter failed")])

\* The channel is closed: the range loop ends and ChunkUnit returns nil.
UnitRangeEnds(c) ==
    LET s == call[c].src
    IN /\ s.cpc = "ranging"
       /\ s.run["unit"].pc = "returned"
       /\ SrcStep(c, [s EXCEPT !.cpc = "returned", !.unitErr = None])

\* sourceManager.EnumerateAndScan over the call's BytesSource: it fails
\* when chunking the unit reported a failure.
EnumerateAndScanUnits(c) ==
    /\ call[c].src.cpc = "returned"
    /\ EnumerateAndScan(c, call[c].src.unitErr = None)

\* The goroutine ChunkUnit started has ended.
ProducerEnded(c) == call[c].src.run["unit"].pc \in {"none", "returned"}

NextChunks ==
    \/ \E data \in ChunkBuffers, v \in BOOLEAN :
          \E f \in FailPoints(data) : MakeSource(1, data, v, f)
    \/ \E data \in ChunkBuffers : ~call[1].src.made /\ ScanBytes(1, data, None)
    \/ SetupEngine(1, TRUE)
    \/ \E f \in FailPoints(call[1].arg) : ScanMakeSource(1, f)
    \/ CancelCtx(1)
    \/ ChunksCall(1)
    \/ \E r \in Styles : HandleFileNext(1, r)
    \/ \E r \in Styles : SendCancelled(1, r)
    \/ DirectReceive(1)
    \/ Enumerate(1)
    \/ ChunkUnit(1)
    \/ \E ok \in BOOLEAN : UnitForward(1, ok)
    \/ UnitRangeEnds(1)
    \/ EnumerateAndScanUnits(1)
    \/ Finish(1, TRUE)
    \/ ReadResults(1)
    \/ ReadCount(1)
    \/ ReadTruncated(1)

SpecChunks == InitCatalog /\ [][NextChunks]_vars

\* The scheduler runs every goroutine that can take a step; nothing makes
\* anyone cancel the context.
SpecChunksFair ==
    /\ SpecChunks
    /\ WF_vars(\E r \in Styles : HandleFileNext(1, r))
    /\ WF_vars(\E r \in Styles : SendCancelled(1, r))
    /\ WF_vars(DirectReceive(1))
    /\ WF_vars(UnitForward(1, TRUE))
    /\ WF_vars(UnitRangeEnds(1))

\* The contents of the chunks in a sequence.
Contents(chunks) == [i \in 1..Len(chunks) |-> chunks[i].Data]

\* Both invocation styles have run to their end on the source of call c,
\* with no cancellation and no chunk refused by the reporter.
BothStylesDone(c) ==
    /\ call[c].src.run["direct"].pc = "returned"
    /\ call[c].src.run["unit"].pc = "returned"
    /\ call[c].src.cpc = "returned"
    /\ call[c].src.unitErr = None
    /\ ~call[c].src.ctxDone

\* C24: the two invocation styles of BytesSource deliver the same chunks.
\* Once Chunks called directly and Enumerate followed by ChunkUnit have
\* both finished on one buffer, Enumerate reported exactly one unit, the
\* two consumers were handed the same sequence of chunk contents (the whole
\* buffer in order when reading it did not fail), every chunk tagged with
\* the stdin provenance kind; for an empty buffer both were handed no chunk
\* and neither reported an error.
C24_SameChunks ==
    BothStylesDone(1) =>
        LET s == call[1].src
            d == s.run["direct"]
            u == s.run["unit"]
        IN /\ Len(s.units) = 1
           /\ Contents(d.got) = Contents(u.got)
           /\ (s.failAt = None) => (Contents(u.got) = Segments(s.data))
           /\ \A i \in 1..Len(d.got) :
                 d.got[i].SourceMetadata = "Stdin" /\ d.got[i].SourceType = "SOURCE_TYPE_STDIN"
           /\ \A i \in 1..Len(u.got) :
                 u.got[i].SourceMetadata = "Stdin" /\ u.got[i].SourceType = "SOURCE_TYPE_STDIN"
           /\ (s.data = <<>>) =>
                 (d.got = <<>> /\ u.got = <<>> /\ d.err = None /\ s.unitErr = None)

\* C24 witness: a buffer three chunks long went through both styles and
\* each consumer holds three chunks.
C24_Witness ==
    /\ BothStylesDone(1)
    /\ Len(call[1].src.data) = 2 * ChunkSize + 1
    /\ call[1].src.failAt = None
    /\ Len(call[1].src.run["unit"].got) = 3
    /\ Len(call[1].src.run["direct"].got) = 3

\* C24, the empty buffer: both styles finished with nothing delivered.
C24_WitnessEmpty ==
    /\ BothStylesDone(1)
    /\ call[1].src.data = <<>>
    /\ call[1].src.run["unit"].got = <<>>

\* C28: a failure while producing the chunks of a buffer fails the scan.
\* When Chunks returned an error inside ChunkUnit, ChunkUnit returns an
\* error to its caller, and the ScanBytes call that ran it returns an error
\* and no report.
C28_ChunkFailureFailsScan ==
    /\ (call[1].src.cpc = "returned" /\ call[1].src.run["unit"].err # None) =>
          call[1].src.unitErr # None
    /\ (Returned(1) /\ call[1].src.run["unit"].err # None) =>
          (call[1].err # None /\ call[1].resp = None)

DetectorTypeArgs ==
    {None, Some(<<>>), Some(<<"a", "w", "s">>), Some(<<"A", "W", "S">>), Some(<<"x">>)}

\* args["secret"].(string) and args["extra_data"].(string)
SecretArgs    == {None, Some(<<>>), Some(<<107>>)}
ExtraDataArgs == {None, Some(<<>>), Some(<<101>>)}

\* textToScan: extraData + " " + secret when extra_data is given
TextToScan(secret, extraData) ==
    IF extraData # None /\ extraData # Some(<<>>)
    THEN extraData[1] \o <<32>> \o secret
    ELSE secret

\* buildDetectorFilter(detectors): the names joined by commas
RECURSIVE buildDetectorFilter(_)
buildDetectorFilter(detectors) ==
    IF Len(detectors) = 0 THEN <<>>
    ELSE IF Len(detectors) = 1 THEN detectors[1]
    ELSE buildDetectorFilter(SubSeq(detectors, 1, Len(detectors) - 1))
            \o <<",">> \o detectors[Len(detectors)]

\* The handler's request as it keeps it for the rest of the call.
VerifyRequest(detectorType, secret, extraData) ==
    Some([detector_type |-> detectorType, secret |-> secret, extra_data |-> extraData])

\* A handler that asks for the secret before it looks the detector up.
VerifySecretHandlerSecretFirst(c, detectorType, secret, extraData) ==
    /\ call[c].pc = "idle"
    /\ call[c].tool = ""
    /\ LET req == VerifyRequest(detectorType, secret, extraData)
       IN IF detectorType = None \/ detectorType = Some(<<>>)
          THEN call' = [call EXCEPT ![c].tool = "verify_secret", ![c].req = req,
                            ![c].toolResult =
                                ToolError("detector_type parameter is required")]
          ELSE IF secret = None \/ secret = Some(<<>>)
          THEN call' = [call EXCEPT ![c].tool = "verify_secret", ![c].req = req,
                            ![c].toolResult = ToolError("secret parameter is required")]
          ELSE IF ~Exists(detectorType[1])
          THEN call' = [call EXCEPT ![c].tool = "verify_secret", ![c].req = req,
                            ![c].toolResult = ToolError("unknown detector type: ")]
          ELSE call' = [call EXCEPT ![c].tool = "verify_secret", ![c].req = req,
                            ![c].harg = TextToScan(secret[1], extraData),
                            ![c].hopts = Some([Verify |-> TRUE,
                                               IncludeDetectors |-> <<detectorType[1]>>]),
                            ![c].thCtx = "Background"]
    /\ collUnchanged /\ restUnchanged

\* VerifySecretHandler up to the call of scanner.ScanText
VerifySecretHandler(c, detectorType, secret, extraData) ==
    /\ call[c].pc = "idle"
    /\ call[c].tool = ""
    /\ LET req == VerifyRequest(detectorType, secret, extraData)
       IN IF detectorType = None \/ detectorType = Some(<<>>)
          THEN call' = [call EXCEPT ![c].tool = "verify_secret", ![c].req = req,
                            ![c].toolResult =
                                ToolError("detector_type parameter is required")]
          ELSE IF ~Exists(detectorType[1])
          THEN call' = [call EXCEPT ![c].tool = "verify_secret", ![c].req = req,
                            ![c].toolResult = ToolError("unknown detector type: ")]
          ELSE IF secret = None \/ secret = Some(<<>>)
          THEN call' = [call EXCEPT ![c].tool = "verify_secret", ![c].req = req,
                            ![c].toolResult = ToolError("secret parameter is required")]
          ELSE call' = [call EXCEPT ![c].tool = "verify_secret", ![c].req = req,
                            ![c].harg = TextToScan(secret[1], extraData),
                            ![c].hopts = Some([Verify |-> TRUE,
                                               IncludeDetectors |-> <<detectorType[1]>>]),
                            ![c].thCtx = "Background"]
    /\ collUnchanged /\ restUnchanged

NextVerifySecret ==
    \/ \E dt \in DetectorTypeArgs, secret \in SecretArgs, extra \in ExtraDataArgs :
          VerifySecretHandler(1, dt, secret, extra)
    \/ Calling(1, "verify_secret") /\ ScanBytes(1, call[1].harg, call[1].hopts)
    \/ \E ok \in BOOLEAN : SetupEngine(1, ok)
    \/ \E ok \in BOOLEAN : EnumerateAndScan(1, ok)
    \/ \E ok \in BOOLEAN : Finish(1, ok)
    \/ ReadResults(1)
    \/ ReadCount(1)
    \/ ReadTruncated(1)
    \/ HandlerReturn(1)

\* A server whose verify_secret handler serves one request.
SpecVerifySecret == InitScan /\ [][NextVerifySecret]_vars

\* No scan was started for call c.
NoScanStarted(c) ==
    /\ call[c].pc = "idle"
    /\ call[c].kind = ""
    /\ ~call[c].made
    /\ call[c].engine = "none"

\* x names a detector of the catalog, in any case.
Registers(x) ==
    \E k \in 1..Len(DefaultDetectors) : CaseVariant(DefaultDetectors[k].Type, x)

\* C25: the verify_secret handler scans only after all its checks passed,
\* made in this order: a missing or empty detector_type gives an error
\* result naming detector_type; a detector_type the catalog does not have
\* gives an "unknown detector type" error result; a missing or empty secret
\* gives an error result naming secret; in each of these cases no scan is
\* started.  Otherwise the handler runs one text scan, with verification on
\* whatever the server's default is and the inclusion list holding exactly
\* the requested detector type.
C25_VerifySecretChecks ==
    (call[1].tool = "verify_secret") =>
        LET q  == call[1].req[1]
            dt == q.detector_type
        IN IF dt = None \/ dt = Some(<<>>)
           THEN /\ call[1].toolResult = ToolError("detector_type parameter is required")
                /\ NoScanStarted(1)
           ELSE IF ~Registers(dt[1])
           THEN /\ call[1].toolResult = ToolError("unknown detector type: ")
                /\ NoScanStarted(1)
           ELSE IF q.secret = None \/ q.secret = Some(<<>>)
           THEN /\ call[1].toolResult = ToolError("secret parameter is required")
                /\ NoScanStarted(1)
           ELSE /\ call[1].hopts # None
                /\ call[1].hopts[1].Verify
                /\ call[1].hopts[1].IncludeDetectors = <<dt[1]>>
                /\ (call[1].kind # "") =>
                      /\ call[1].kind = "ScanBytes"
                      /\ call[1].opts = call[1].hopts
                      /\ Len(call[1].arg) >= Len(q.secret[1])
                /\ call[1].made =>
                      /\ call[1].verifyEngine = Some(TRUE)
                      /\ buildDetectorFilter(call[1].opts[1].IncludeDetectors) = dt[1]
                /\ (call[1].toolResult # None) => Returned(1)

\* C25 witness: on a server whose default is not to verify, a request for
\* detector "aws" with a secret was served by a scan that verified.
C25_Witness ==
    /\ call[1].tool = "verify_secret"
    /\ ~config.Verify
    /\ call[1].req[1].detector_type = Some(<<"a", "w", "s">>)
    /\ call[1].verifyEngine = Some(TRUE)
    /\ call[1].toolResult # None
    /\ ~call[1].toolResult[1].IsError

\* C25, the order of the checks: a request with an unknown detector and no
\* secret was refused for the detector.
C25_WitnessOrder ==
    /\ call[1].tool = "verify_secret"
    /\ call[1].req[1].detector_type = Some(<<"x">>)
    /\ call[1].req[1].secret = None
    /\ call[1].toolResult = ToolError("unknown detector type: ")

\* The errors the entry points return from their own validation.
ValidationErrors ==
    {"file does not exist: ", "directory does not exist: ",
     "path is not a directory: ", "repository does not exist: "}

\* C26: validation comes strictly before any pipeline work.  Whenever
\* ScanFile, ScanDirectory or ScanGitRepo returns a validation error, it
\* does so in the first step of the call, after one look at the path, with
\* no collector, source manager, engine or content source created or
\* started for the call; it returns no report, and nothing more happens in
\* the call afterwards (no second attempt).
C26_ValidationFirst ==
    [][ \A c \in Calls :
          (/\ call[c].pc' = "returned"
           /\ call[c].err' # None
           /\ call[c].err'[1].text \in ValidationErrors) =>
              /\ call[c].pc = "idle" \/ call[c]' = call[c]
              /\ call[c].statted' # None
              /\ call[c].resp' = None
              /\ ~call[c].made'
              /\ call[c].engine' = "none"
              /\ ~call[c].fed'
              /\ call[c].verifyEngine' = None /\ call[c].verifySource' = None
              /\ call[c].failedAt' = ""
              /\ maxResults'[c] = maxResults[c] /\ results'[c] = <<>>
      ]_vars

\* C26 witness: ScanGitRepo on a bare path that does not exist has returned
\* its validation error with nothing built.
C26_Witness ==
    /\ call[1].kind = "ScanGitRepo"
    /\ call[1].arg = UriBare
    /\ call[1].opts = Some([Verify |-> FALSE])
    /\ Returned(1)
    /\ call[1].err # None
    /\ call[1].err[1].text \in ValidationErrors
    /\ ~call[1].made

\* C27: each Print call changes the collector in exactly one of two ways.
\* Below the bound (or with maxResults = 0) it appends exactly one item, the
\* conversion of the finding it was given, at the end, and leaves the
\* earlier items and the truncated flag as they were; at the bound it sets
\* truncated and leaves the kept sequence as it was.  Its return changes
\* nothing.  So the kept count never decreases, kept items never change
\* position or content, and truncated never goes back to false.
C27_PrintFrame ==
    [][ LET before == DerefAll(results[1], heap)
            after  == DerefAll(results[1], heap)'
            below  == maxResults[1] = 0 \/ Len(results[1]) < maxResults[1]
        IN /\ Len(after) >= Len(before)
           /\ SubSeq(after, 1, Len(before)) = before
           /\ truncated[1] => truncated'[1]
           /\ (after # before) =>
                 /\ below
                 /\ truncated' = truncated
                 /\ \E w \in Workers :
                       /\ wpc[1][w] = "append" /\ wpc'[1][w] = "unlock"
                       /\ after = Append(before, ConvertResult(warg[1][w]))
           /\ (truncated'[1] # truncated[1]) => (~below /\ after = before)
           /\ \A w \in Workers :
                 /\ (wpc[1][w] = "check" /\ wpc'[1][w] # "check") =>
                       IF below
                       THEN wpc'[1][w] = "append" /\ truncated' = truncated
                       ELSE wpc'[1][w] = "unlock" /\ truncated'[1]
                 /\ (wpc[1][w] = "append" /\ wpc'[1][w] # "append") =>
                       Len(after) = Len(before) + 1
                 /\ (wpc[1][w] = "unlock" /\ wpc'[1][w] # "unlock") =>
                       /\ wpc'[1][w] = "idle"
                       /\ after = before /\ truncated' = truncated
      ]_vars

\* C27 witness: a collector of one was offered three findings by calls that
\* have all returned; it kept the first and is truncated.
C27_Witness ==
    /\ AllIdle(1)
    /\ maxResults[1] = 1
    /\ Len(offered[1]) = 3
    /\ Len(results[1]) = 1
    /\ truncated[1]

\* C29: every scan call that starts the engine also finishes it before it
\* returns.  A call that has returned after eng.Start has had eng.Finish
\* called: the engine is finished, or Finish itself reported the failure
\* the call returned.
C29_FinishOnEveryPath ==
    \A c \in Calls :
        (Returned(c) /\ call[c].engine # "none") =>
            (call[c].engine = "finished" \/ call[c].failedAt = "finish")

\* The part of C29 the code does give: a call that returns a report has
\* finished its engine.
C29_FinishBeforeReport ==
    \A c \in Calls :
        (HasReport(c) /\ call[c].engine # "none") => call[c].engine = "finished"

====
